---- MODULE Spec2Model ----
(***************************************************************************)
(* The market/trading engine of the trading-game server: GameService       *)
(* (buyItem, sellItem, upgradeLicense, claimDailyBonus, updateMarketPrices)*)
(* over the tables DatabaseManager keeps (players, inventory, trades,      *)
(* market_prices, merchants).                                              *)
(*                                                                         *)
(* Every GameService method is an async function: each `await` of a        *)
(* storage operation is a point where another request's handler may run.   *)
(* A call is therefore a little process; one action is one storage         *)
(* operation together with the synchronous code that follows it up to the  *)
(* next await.  Reads of the merchants table, which no operation writes,   *)
(* are folded into the step before them.                                   *)
(*                                                                         *)
(* Numbers are JavaScript numbers holding integers far below 2^53; a       *)
(* product by 0.9, 0.5 or 1.5 followed by Math.floor is the integer        *)
(* division written here.                                                  *)
(***************************************************************************)
EXTENDS Integers, Sequences, FiniteSets, TLC

\* ------------------------------------------------------------------ bounds

\* Calls that may be started in one behaviour with concurrent requests.
MaxCalls == 2
\* Calls that may be started in one behaviour served one request at a time.
MaxSeqCalls == 2
\* Calls that may be started in one behaviour of a buy followed by sells.
MaxSellCalls == 3
\* Calls of triggerRandomEvent in one behaviour.
MaxEvents == 2
\* Calls in one behaviour of overlapping licence upgrades.
MaxUpgradeCalls == 3
\* Runs of the periodic price recomputation in one behaviour.
MaxPriceRuns == 1
\* Days the clock may advance.
MaxDays == 1

\* Base prices and stored current prices the recomputation is tried on.
MaxBasePrice == 12
MaxStoredPrice == 20

\* The two in-flight requests the server may be serving at once.
Slots == {1, 2}

\* ------------------------------------------------------------- item names

\* An item name is the sequence of its words; the Korean grade words of the
\* seed data are written "common" (커먼), "mid" (중급), "high" (고급),
\* "legendary" (전설).
ItemITCommon == <<"IT", "common">>
ItemITMid == <<"IT", "mid">>
ItemRelic == <<"relic", "legendary">>

\* String.prototype.includes on the words of a name.
includes(itemName, marker) == \E i \in DOMAIN itemName : itemName[i] = marker

determineItemGrade(itemName) ==
    IF includes(itemName, "common") THEN "common"
    ELSE IF includes(itemName, "mid") THEN "rare"
    ELSE IF includes(itemName, "high") THEN "epic"
    ELSE IF includes(itemName, "legendary") THEN "legendary"
    ELSE "common"

getRequiredLicense(itemName) ==
    IF includes(itemName, "common") THEN 1
    ELSE IF includes(itemName, "mid") THEN 2
    ELSE IF includes(itemName, "high") THEN 3
    ELSE IF includes(itemName, "legendary") THEN 4
    ELSE 1

\* ---------------------------------------------------------- license ladder

getLicenseUpgradeCost(license) ==
    CASE license = 2 -> 100000
      [] license = 3 -> 250000
      [] license = 4 -> 500000
      [] license = 5 -> 1000000
      [] OTHER -> 0

getRequiredTrustPoints(license) ==
    CASE license = 2 -> 50
      [] license = 3 -> 150
      [] license = 4 -> 300
      [] license = 5 -> 500
      [] OTHER -> 0

\* A variant that gives every tier the capacity of tier 1.
getInventorySize_flat(license) ==
    CASE license \in 1..5 -> 5
      [] OTHER -> 5

getInventorySize(license) ==
    CASE license = 1 -> 5
      [] license = 2 -> 8
      [] license = 3 -> 12
      [] license = 4 -> 16
      [] license = 5 -> 20
      [] OTHER -> 5

\* ------------------------------------------------------------------ tables

\* The columns CREATE TABLE gives the players table.
PlayersColumns ==
    {"id", "user_id", "name", "money", "trust_points", "current_license",
     "max_inventory_size", "location_lat", "location_lng", "last_active",
     "created_at"}

\* The operations DatabaseManager exposes to GameService.
DatabaseManagerMethods ==
    {"getPlayerByUserId", "updatePlayer", "updatePlayerLocation",
     "getPlayerInventory", "addItemToInventory", "removeItemFromInventory",
     "getAllMarketPrices", "updateMarketPrice", "getMarketPrice",
     "getAllMerchants", "getMerchantById", "findNearbyMerchants",
     "createTradeRecord", "getTradeHistory"}

\* The storage object GameService is constructed with.  AsWritten is
\* DatabaseManager over the tables createTables makes.  Collaborator is a
\* storage that serves every operation GameService invokes: it also answers
\* the raw get() of sellItem, and its players table (createTables runs
\* CREATE TABLE IF NOT EXISTS over the database file it finds) has the
\* updated_at column updatePlayer writes.
StorageAsWritten ==
    [columns |-> PlayersColumns, methods |-> DatabaseManagerMethods]
StorageCollaborator ==
    [columns |-> PlayersColumns \cup {"updated_at"},
     methods |-> DatabaseManagerMethods \cup {"get"}]

\* Rows of market_prices: the first two items of createInitialData.
MarketSeed ==
    (ItemITCommon :> [base_price |-> 5000, current_price |-> 5000])
    @@ (ItemITMid :> [base_price |-> 15000, current_price |-> 15000])

\* Rows of merchants: the first merchant of createInitialData, and two rows
\* of the same table that exercise the checks of buyItem the seed rows never
\* fail: a merchant that requires license 3, and one who offers an item that
\* has no market_prices row.
MerchantSeed ==
    [merchant_gangnam_it |->
        [required_license |-> 1, inventory |-> {ItemITCommon, ItemITMid}],
     merchant_vip |->
        [required_license |-> 3, inventory |-> {ItemITCommon}],
     merchant_stall |->
        [required_license |-> 1, inventory |-> {ItemRelic}]]

\* createPlayer's row for a new registration (AuthService.register).
NewPlayer(userId) ==
    [user_id |-> userId, money |-> 50000, trust_points |-> 0,
     current_license |-> 1, max_inventory_size |-> 5, last_active |-> 0]

\* The same row after ten daily bonuses at license 1 (10 x 5000 currency,
\* 10 x 5 trust): the first state in which an upgrade is affordable.
SeasonedPlayer(userId) ==
    [NewPlayer(userId) EXCEPT !.money = 100000, !.trust_points = 50]

PlayerIds == {"p1", "p2"}

\* ------------------------------------------------------------ request data

\* POST /trade/buy lets 1 <= quantity <= 10 through.
BuyQuantities == {1, 2, 5}
\* POST /trade/sell passes the body's quantity on unchecked.
SellQuantities == {-3, 0, 1, 2}

\* The bodies of POST /trade/buy: every quantity of either priced item at
\* the seed merchant, and one request for each way a buy can be turned down
\* before the price is read (an item the merchant does not offer, an item
\* without a price row, a merchant the player's license does not reach, an
\* unknown merchant, a user without a player), and a buy by the other player.
BuyRequests ==
    [userId : {"u1"}, merchantId : {"merchant_gangnam_it"},
     itemName : {ItemITCommon, ItemITMid}, quantity : BuyQuantities]
    \cup [userId : {"u1"}, merchantId : {"merchant_vip"},
          itemName : {ItemITCommon, ItemITMid}, quantity : {1}]
    \cup [userId : {"u1"}, merchantId : {"merchant_stall"},
          itemName : {ItemITCommon, ItemRelic}, quantity : {1}]
    \cup [userId : {"u1"}, merchantId : {"merchant_none"},
          itemName : {ItemRelic}, quantity : {1}]
    \cup [userId : {"u0", "u2"}, merchantId : {"merchant_gangnam_it"},
          itemName : {ItemITCommon}, quantity : {1}]

\* The bodies of POST /trade/sell, given the inventory rows there are: the
\* first player selling any row or a row that does not exist, to the seed
\* merchant or to an unknown one, and the other player or a user without a
\* player selling one unit of any row.
SellRequests(ids, quantities) ==
    [userId : {"u1"}, itemId : ids \cup {0},
     merchantId : {"merchant_gangnam_it"}, quantity : quantities]
    \cup [userId : {"u1"}, itemId : ids,
          merchantId : {"merchant_none"}, quantity : {q \in quantities : q > 0}]
    \cup [userId : {"u0", "u2"}, itemId : ids,
          merchantId : {"merchant_gangnam_it"}, quantity : {1}]

UserIds == {"u1", "u2", "u0"}

\* Math.random() draws of updateMarketPrices, as the variation in percent.
Variations == {-20, 15}

\* How requests arrive.  Concurrent: as the server takes them, a second
\* request while the first is at an await, the sell route's quantity
\* unchecked, and a write to storage may raise an SQLite error.
\* OneAtATime: each request after the response to the one before it,
\* quantities >= 1, storage that does not fail.
Concurrent ==
    [exclusive |-> FALSE, sellQuantities |-> SellQuantities,
     maxCalls |-> MaxCalls, faults |-> TRUE]
OneAtATime ==
    [exclusive |-> TRUE, sellQuantities |-> {q \in SellQuantities : q >= 1},
     maxCalls |-> MaxSeqCalls, faults |-> FALSE]
\* A buy and then sells that may overlap, with quantities of at least one,
\* over a storage that answers.
Selling ==
    [exclusive |-> FALSE, sellQuantities |-> {q \in SellQuantities : q >= 1},
     maxCalls |-> MaxSellCalls, faults |-> FALSE]
\* Requests served one at a time, quantities of at least one, over a storage
\* whose writes may raise.
OneAtATimeRaising ==
    [exclusive |-> TRUE, sellQuantities |-> {q \in SellQuantities : q >= 1},
     maxCalls |-> MaxSeqCalls, faults |-> TRUE]
\* Requests that may overlap, with quantities of at least one, over a storage
\* that answers.
Overlapping ==
    [exclusive |-> FALSE, sellQuantities |-> {q \in SellQuantities : q >= 1},
     maxCalls |-> MaxCalls, faults |-> FALSE]
\* Licence upgrades that overlap at their awaits, over a storage that answers.
Upgrading ==
    [exclusive |-> FALSE, sellQuantities |-> {q \in SellQuantities : q >= 1},
     maxCalls |-> MaxUpgradeCalls, faults |-> FALSE]
\* Requests that meet the price recomputation at any of their awaits, over a
\* storage that answers.
Racing ==
    [exclusive |-> FALSE, sellQuantities |-> SellQuantities,
     maxCalls |-> MaxSeqCalls, faults |-> FALSE]

\* ------------------------------------------------------------------- state

VARIABLES
    storage,     \* the storage object GameService holds
    players,     \* players table: player id -> row
    inventory,   \* inventory table: set of rows
    market,      \* market_prices table: item name -> row
    merchants,   \* merchants table: merchant id -> row
    trades,      \* trades table, in insertion order
    calls,       \* per slot: the request being served, its locals, its outcome
    touched,     \* per slot: whether the request has changed a table so far
    job,         \* the setInterval price recomputation
    started,     \* calls started so far
    priceRuns,   \* price recomputations started so far
    uuids,       \* inventory row ids handed out so far
    now,         \* the clock, in days
    claimedAt,   \* per player: the day claimDailyBonus last succeeded, -1 if never
    event        \* the triggerRandomEvent call, if one is running

db == <<players, inventory, market, merchants, trades>>
vars == <<storage, players, inventory, market, merchants, trades, calls,
          touched, job, started, priceRuns, uuids, now, claimedAt, event>>

NullPlayer ==
    [id |-> "none", user_id |-> "none", money |-> 0, trust_points |-> 0,
     current_license |-> 0, max_inventory_size |-> 0, last_active |-> 0]
NullPrice == [item_name |-> <<>>, base_price |-> 0, current_price |-> 0]
NullItem ==
    [id |-> 0, player_id |-> "none", item_name |-> <<>>, base_price |-> 0,
     current_price |-> 0, item_grade |-> "none", required_license |-> 0,
     quantity |-> 0]
NullData == [totalPrice |-> 0, money |-> 0]

IdleCall ==
    [pc |-> "idle", op |-> "none", userId |-> "none", merchantId |-> "none",
     itemName |-> <<>>, itemId |-> 0, quantity |-> 0,
     player |-> NullPlayer, marketPrice |-> NullPrice, totalPrice |-> 0,
     item |-> NullItem, held |-> 0, rowId |-> 0,
     success |-> FALSE, error |-> "none", data |-> NullData,
     seq |-> 0, overlap |-> 0]

IdleJob == [pc |-> "idle", prices |-> <<>>, i |-> 0]
IdleEvent == [pc |-> "idle", prices |-> <<>>, i |-> 0, runs |-> 0]

\* ------------------------------------------------------ storage operations

\* SELECT p.* FROM players p WHERE p.user_id = ?
getPlayerByUserId(userId) ==
    IF \E p \in DOMAIN players : players[p].user_id = userId
    THEN LET p == CHOOSE q \in DOMAIN players : players[q].user_id = userId
         IN  [id |-> p] @@ players[p]
    ELSE NullPlayer

\* UPDATE players SET <the keys of updates>, updated_at = CURRENT_TIMESTAMP:
\* SQLite rejects the statement when a column it names is not in the table.
updatePlayerRaises(updates) ==
    ~((DOMAIN updates \cup {"updated_at"}) \subseteq storage.columns)

\* The players table after updatePlayer(playerId, updates).
updatePlayer(playerId, updates) ==
    [players EXCEPT ![playerId] =
        [f \in DOMAIN @ |-> IF f \in DOMAIN updates THEN updates[f] ELSE @[f]]]

\* SELECT * FROM inventory WHERE player_id = ?
getPlayerInventory(playerId) == {r \in inventory : r.player_id = playerId}

RECURSIVE SumQuantity(_)
SumQuantity(rows) ==
    IF rows = {} THEN 0
    ELSE LET r == CHOOSE x \in rows : TRUE
         IN  r.quantity + SumQuantity(rows \ {r})

\* currentInventory.reduce((sum, item) => sum + item.quantity, 0)
totalItems(playerId) == SumQuantity(getPlayerInventory(playerId))

\* `x || 1` of addItemToInventory and createTradeRecord.
OrOne(x) == IF x = 0 THEN 1 ELSE x

\* The inventory table after addItemToInventory(inventoryData): always an
\* INSERT of a new row.
addItemToInventory(inventoryData) ==
    inventory \cup
      {[id |-> inventoryData.id, player_id |-> inventoryData.playerId,
        item_name |-> inventoryData.itemName,
        base_price |-> inventoryData.basePrice,
        current_price |-> inventoryData.currentPrice,
        item_grade |-> inventoryData.itemGrade,
        required_license |-> inventoryData.requiredLicense,
        quantity |-> OrOne(inventoryData.quantity)]}

\* A variant that keeps the newest record first.
createTradeRecord_newestFirst(tradeData) ==
    <<[seller_id |-> tradeData.sellerId, buyer_id |-> tradeData.buyerId,
       merchant_id |-> tradeData.merchantId, item_name |-> tradeData.itemName,
       price |-> tradeData.price, quantity |-> tradeData.quantity,
       trade_type |-> tradeData.tradeType]>> \o trades

\* The trades table after createTradeRecord(tradeData).
createTradeRecord(tradeData) ==
    Append(trades,
      [seller_id |-> tradeData.sellerId, buyer_id |-> tradeData.buyerId,
       merchant_id |-> tradeData.merchantId, item_name |-> tradeData.itemName,
       price |-> tradeData.price, quantity |-> OrOne(tradeData.quantity),
       trade_type |-> tradeData.tradeType])

\* uuidv4(): an id no inventory row has.
uuidv4 == uuids + 1

\* --------------------------------------------------------------- call steps

InFlight(c) == calls[c].pc \notin {"idle", "done"}
Other(c) == CHOOSE d \in Slots : d # c

\* A request may start in a free slot; slot 2 serves only requests that
\* arrive while slot 1 is busy.  With `exclusive`, requests are served one
\* at a time and not during a price recomputation.
MayStart(c, regime) ==
    /\ calls[c].pc = "idle"
    /\ started < regime.maxCalls
    /\ c = 2 => InFlight(1)
    /\ regime.exclusive =>
         (\A d \in Slots : calls[d].pc = "idle") /\ job.pc = "idle"

NewCall(c, op, args) ==
    [f \in DOMAIN IdleCall |->
        IF f \in DOMAIN args THEN args[f]
        ELSE IF f = "op" THEN op
        ELSE IF f = "seq" THEN started + 1
        ELSE IF f = "overlap" THEN
            (IF InFlight(Other(c)) THEN calls[Other(c)].seq ELSE 0)
        ELSE IdleCall[f]]

\* A variant that lets the error leave the method.
Fail_rethrows(call, error) ==
    [call EXCEPT !.pc = "thrown", !.success = FALSE, !.error = error]

\* The catch block: return { success: false, error }.
Fail(call, error) == [call EXCEPT !.pc = "done", !.success = FALSE, !.error = error]

\* A write to storage may raise an SQLite error.
MayRaise(regime) == regime.faults /\ storage = StorageCollaborator

\* The request in slot c has changed a table.
Touch(c) == touched' = [touched EXCEPT ![c] = @ \/ (db' # db)]

\* A variant that looks at the merchant's offer before the license.
buyItem_lookup_offerFirst(player, req) ==
    IF player = NullPlayer THEN "PlayerNotFound"
    ELSE IF req.merchantId \notin DOMAIN merchants THEN "MerchantNotFound"
    ELSE IF req.itemName \notin merchants[req.merchantId].inventory
         THEN "ItemNotOffered"
    ELSE IF player.current_license < merchants[req.merchantId].required_license
         THEN "LicenseInsufficient"
    ELSE "none"

\* The checks of buyItem before the price is read, in the order written:
\* the error thrown, or "none".
buyItem_lookup(player, req) ==
    IF player = NullPlayer THEN "PlayerNotFound"
    ELSE IF req.merchantId \notin DOMAIN merchants THEN "MerchantNotFound"
    ELSE IF player.current_license < merchants[req.merchantId].required_license
         THEN "LicenseInsufficient"
    ELSE IF req.itemName \notin merchants[req.merchantId].inventory
         THEN "ItemNotOffered"
    ELSE "none"

\* buyItem up to its third await: the player, the merchant, the license
\* check and the merchant's offer.
buyItem_getPlayerByUserId(c, regime) ==
    /\ MayStart(c, regime)
    /\ \E req \in BuyRequests :
        LET player == getPlayerByUserId(req.userId)
            call == NewCall(c, "buy", req @@ [player |-> player])
            error == buyItem_lookup(player, req)
        IN  calls' = [calls EXCEPT ![c] =
              IF error # "none" THEN Fail(call, error)
              ELSE [call EXCEPT !.pc = "buy_getMarketPrice"]]
    /\ started' = started + 1
    /\ touched' = [touched EXCEPT ![c] = FALSE]
    /\ UNCHANGED <<event, claimedAt, storage, db, job, priceRuns, uuids, now>>

\* A variant that charges the unit price whatever the quantity.
buyTotalPrice_unit(marketPrice, quantity) == marketPrice.current_price

\* const totalPrice = marketPrice.current_price * quantity
buyTotalPrice(marketPrice, quantity) == marketPrice.current_price * quantity

\* A variant that asks again for as long as the item has no price row.
buyItem_getMarketPrice_retries(c) ==
    /\ calls[c].pc = "buy_getMarketPrice"
    /\ LET call == calls[c]
           found == call.itemName \in DOMAIN market
           marketPrice == IF found
                          THEN [item_name |-> call.itemName] @@ market[call.itemName]
                          ELSE NullPrice
           priced == [call EXCEPT !.marketPrice = marketPrice,
                                  !.totalPrice = buyTotalPrice(marketPrice, call.quantity)]
       IN  calls' = [calls EXCEPT ![c] =
             IF ~found THEN call
             ELSE IF priced.player.money < priced.totalPrice
                  THEN Fail(priced, "InsufficientFunds")
             ELSE [priced EXCEPT !.pc = "buy_getPlayerInventory"]]
    /\ UNCHANGED <<event, claimedAt, storage, db, touched, job, started,
                   priceRuns, uuids, now>>

\* A variant without the funds check.
buyItem_getMarketPrice_unchecked(c) ==
    /\ calls[c].pc = "buy_getMarketPrice"
    /\ LET call == calls[c]
           found == call.itemName \in DOMAIN market
           marketPrice == IF found
                          THEN [item_name |-> call.itemName] @@ market[call.itemName]
                          ELSE NullPrice
           priced == [call EXCEPT !.marketPrice = marketPrice,
                                  !.totalPrice = buyTotalPrice(marketPrice, call.quantity)]
       IN  calls' = [calls EXCEPT ![c] =
             IF ~found THEN Fail(call, "PriceNotFound")
             ELSE [priced EXCEPT !.pc = "buy_getPlayerInventory"]]
    /\ UNCHANGED <<event, claimedAt, storage, db, touched, job, started,
                   priceRuns, uuids, now>>

\* getMarketPrice, totalPrice and the funds check.
buyItem_getMarketPrice(c) ==
    /\ calls[c].pc = "buy_getMarketPrice"
    /\ LET call == calls[c]
           found == call.itemName \in DOMAIN market
           marketPrice == IF found
                          THEN [item_name |-> call.itemName] @@ market[call.itemName]
                          ELSE NullPrice
           priced == [call EXCEPT !.marketPrice = marketPrice,
                                  !.totalPrice = buyTotalPrice(marketPrice, call.quantity)]
       IN  calls' = [calls EXCEPT ![c] =
             IF ~found THEN Fail(call, "PriceNotFound")
             ELSE IF priced.player.money < priced.totalPrice
                  THEN Fail(priced, "InsufficientFunds")
             ELSE [priced EXCEPT !.pc = "buy_getPlayerInventory"]]
    /\ UNCHANGED <<event, claimedAt, storage, db, touched, job, started,
                   priceRuns, uuids, now>>

\* A variant that refuses a buy that would fill the inventory exactly.
insufficientSpace_noExactFit(call) ==
    totalItems(call.player.id) + call.quantity >= call.player.max_inventory_size

\* A variant that compares the units held, without the units asked for.
insufficientSpace_heldOnly(call) ==
    totalItems(call.player.id) > call.player.max_inventory_size

\* totalItems + quantity > player.max_inventory_size
insufficientSpace(call) ==
    totalItems(call.player.id) + call.quantity > call.player.max_inventory_size

\* A variant that takes the money before it looks at the capacity.
buyItem_getPlayerInventory_chargeFirst(c) ==
    /\ calls[c].pc = "buy_getPlayerInventory"
    /\ LET call == calls[c]
       IN  /\ players' = updatePlayer(call.player.id,
                            [money |-> call.player.money - call.totalPrice])
           /\ calls' = [calls EXCEPT ![c] =
                 IF insufficientSpace(call) THEN Fail(call, "InventoryFull")
                 ELSE [call EXCEPT !.pc = "buy_addItemToInventory"]]
    /\ UNCHANGED <<event, claimedAt, storage, inventory, market, merchants,
                   trades, job, started, priceRuns, uuids, now>>
    /\ Touch(c)

\* getPlayerInventory and the capacity check.
buyItem_getPlayerInventory(c) ==
    /\ calls[c].pc = "buy_getPlayerInventory"
    /\ LET call == calls[c]
       IN  calls' = [calls EXCEPT ![c] =
             IF insufficientSpace(call) THEN Fail(call, "InventoryFull")
             ELSE [call EXCEPT !.pc = "buy_updatePlayer"]]
    /\ UNCHANGED <<event, claimedAt, storage, db, touched, job, started,
                   priceRuns, uuids, now>>

\* A variant that rewards the buy with a trust point, as the first trade
\* engine did.
buyItem_updatePlayer_rewardsTrust(c, regime) ==
    /\ calls[c].pc = "buy_updatePlayer"
    /\ LET call == calls[c]
           updates == [money |-> call.player.money - call.totalPrice,
                       trust_points |-> call.player.trust_points + 1]
       IN  /\ players' = updatePlayer(call.player.id, updates)
           /\ calls' = [calls EXCEPT ![c].pc = "buy_addItemToInventory"]
    /\ UNCHANGED <<event, claimedAt, storage, inventory, market, merchants,
                   trades, job, started, priceRuns, uuids, now>>
    /\ Touch(c)

\* 1. updatePlayer(player.id, { money: player.money - totalPrice }).
buyItem_updatePlayer(c, regime) ==
    /\ calls[c].pc = "buy_updatePlayer"
    /\ LET call == calls[c]
           updates == [money |-> call.player.money - call.totalPrice]
       IN  \/ /\ ~updatePlayerRaises(updates)
              /\ players' = updatePlayer(call.player.id, updates)
              /\ calls' = [calls EXCEPT ![c].pc = "buy_addItemToInventory"]
           \/ /\ updatePlayerRaises(updates)
              /\ calls' = [calls EXCEPT ![c] = Fail(call, "StorageError")]
              /\ UNCHANGED players
           \/ /\ MayRaise(regime)
              /\ calls' = [calls EXCEPT ![c] = Fail(call, "StorageError")]
              /\ UNCHANGED players
    /\ UNCHANGED <<event, claimedAt, storage, inventory, market, merchants,
                   trades, job, started, priceRuns, uuids, now>>
    /\ Touch(c)

\* A variant that tags the row with the price stored at the time of the
\* insert.
buyItem_addItemToInventory_rereads(c, regime) ==
    /\ calls[c].pc = "buy_addItemToInventory"
    /\ LET call == calls[c]
           id == uuidv4
       IN  /\ inventory' = addItemToInventory(
                    [id |-> id, playerId |-> call.player.id,
                     itemName |-> call.itemName,
                     basePrice |-> market[call.itemName].base_price,
                     currentPrice |-> market[call.itemName].current_price,
                     itemGrade |-> determineItemGrade(call.itemName),
                     requiredLicense |-> getRequiredLicense(call.itemName),
                     quantity |-> call.quantity])
           /\ calls' = [calls EXCEPT ![c].pc = "buy_createTradeRecord",
                                     ![c].rowId = id]
           /\ uuids' = id
    /\ UNCHANGED <<event, claimedAt, storage, players, market, merchants,
                   trades, job, started, priceRuns, now>>
    /\ Touch(c)

\* 2. addItemToInventory({ id: uuidv4(), ... quantity }).
buyItem_addItemToInventory(c, regime) ==
    /\ calls[c].pc = "buy_addItemToInventory"
    /\ LET call == calls[c]
           id == uuidv4
       IN  \/ /\ inventory' = addItemToInventory(
                    [id |-> id, playerId |-> call.player.id,
                     itemName |-> call.itemName,
                     basePrice |-> call.marketPrice.base_price,
                     currentPrice |-> call.marketPrice.current_price,
                     itemGrade |-> determineItemGrade(call.itemName),
                     requiredLicense |-> getRequiredLicense(call.itemName),
                     quantity |-> call.quantity])
              /\ calls' = [calls EXCEPT ![c].pc = "buy_createTradeRecord",
                                        ![c].rowId = id]
              /\ uuids' = id
           \/ /\ MayRaise(regime)
              /\ calls' = [calls EXCEPT ![c] = Fail(call, "StorageError")]
              /\ UNCHANGED <<inventory, uuids>>
    /\ UNCHANGED <<event, claimedAt, storage, players, market, merchants,
                   trades, job, started, priceRuns, now>>
    /\ Touch(c)

\* 3. createTradeRecord({ ... tradeType: 'buy' }) and the success return.
buyItem_createTradeRecord(c, regime) ==
    /\ calls[c].pc = "buy_createTradeRecord"
    /\ LET call == calls[c]
       IN  \/ /\ trades' = createTradeRecord(
                    [sellerId |-> "null", buyerId |-> call.player.id,
                     merchantId |-> call.merchantId,
                     itemName |-> call.itemName, price |-> call.totalPrice,
                     quantity |-> call.quantity, tradeType |-> "buy"])
              /\ calls' = [calls EXCEPT ![c].pc = "done", ![c].success = TRUE,
                             ![c].data = [totalPrice |-> call.totalPrice,
                                          money |-> call.player.money - call.totalPrice]]
           \/ /\ MayRaise(regime)
              /\ calls' = [calls EXCEPT ![c] = Fail(call, "StorageError")]
              /\ UNCHANGED trades
    /\ UNCHANGED <<event, claimedAt, storage, players, inventory, market,
                   merchants, job, started, priceRuns, uuids, now>>
    /\ Touch(c)

\* sellItem up to its second await: the player.
sellItem_getPlayerByUserId(c, regime) ==
    /\ MayStart(c, regime)
    /\ \E req \in SellRequests({r.id : r \in inventory}, regime.sellQuantities) :
        LET player == getPlayerByUserId(req.userId)
            call == NewCall(c, "sell", req @@ [player |-> player])
        IN  calls' = [calls EXCEPT ![c] =
              IF player = NullPlayer THEN Fail(call, "PlayerNotFound")
              ELSE [call EXCEPT !.pc = "sell_get"]]
    /\ started' = started + 1
    /\ touched' = [touched EXCEPT ![c] = FALSE]
    /\ UNCHANGED <<event, claimedAt, storage, db, job, priceRuns, uuids, now>>

\* A variant that pays a tenth above the price of the row.
sellPrice_markup(item) == (item.current_price * 11) \div 10

\* A variant that pays the full price of the row.
sellPrice_full(item) == item.current_price

\* A variant that pays by the price the market stores at the time of the
\* sale.
sellPrice_market(item) ==
    IF item.item_name \in DOMAIN market
    THEN (market[item.item_name].current_price * 9) \div 10
    ELSE 0

\* Math.floor(item.current_price * 0.9)
sellPrice(item) == (item.current_price * 9) \div 10

\* A variant that looks the row up by its id alone, whoever holds it.
sellItem_get_anyOwner(c) ==
    /\ calls[c].pc = "sell_get"
    /\ LET call == calls[c]
           rows == {r \in inventory : r.id = call.itemId}
           item == IF rows = {} THEN NullItem ELSE CHOOSE r \in rows : TRUE
           sold == [call EXCEPT !.item = item]
       IN  calls' = [calls EXCEPT ![c] =
             IF "get" \notin storage.methods THEN Fail(call, "TypeError")
             ELSE IF rows = {} THEN Fail(call, "ItemNotOwned")
             ELSE IF item.quantity < call.quantity
                  THEN Fail(sold, "InsufficientQuantity")
             ELSE IF call.merchantId \notin DOMAIN merchants
                  THEN Fail(sold, "MerchantNotFound")
             ELSE [sold EXCEPT !.pc = "sell_updatePlayer",
                               !.itemName = item.item_name,
                               !.totalPrice = sellPrice(item) * call.quantity]]
    /\ UNCHANGED <<event, claimedAt, storage, db, touched, job, started,
                   priceRuns, uuids, now>>

\* A variant that looks for the merchant before it compares the quantities.
sellItem_get_merchantFirst(c) ==
    /\ calls[c].pc = "sell_get"
    /\ LET call == calls[c]
           rows == {r \in inventory :
                      r.id = call.itemId /\ r.player_id = call.player.id}
           item == IF rows = {} THEN NullItem ELSE CHOOSE r \in rows : TRUE
           sold == [call EXCEPT !.item = item]
       IN  calls' = [calls EXCEPT ![c] =
             IF "get" \notin storage.methods THEN Fail(call, "TypeError")
             ELSE IF rows = {} THEN Fail(call, "ItemNotOwned")
             ELSE IF call.merchantId \notin DOMAIN merchants
                  THEN Fail(sold, "MerchantNotFound")
             ELSE IF item.quantity < call.quantity
                  THEN Fail(sold, "InsufficientQuantity")
             ELSE [sold EXCEPT !.pc = "sell_updatePlayer",
                               !.itemName = item.item_name,
                               !.totalPrice = sellPrice(item) * call.quantity]]
    /\ UNCHANGED <<event, claimedAt, storage, db, touched, job, started,
                   priceRuns, uuids, now>>

\* this.db.get('SELECT * FROM inventory WHERE id = ? AND player_id = ?'),
\* the quantity check, the merchant, and the price of the sale.
sellItem_get(c) ==
    /\ calls[c].pc = "sell_get"
    /\ LET call == calls[c]
           rows == {r \in inventory :
                      r.id = call.itemId /\ r.player_id = call.player.id}
           item == IF rows = {} THEN NullItem ELSE CHOOSE r \in rows : TRUE
           sold == [call EXCEPT !.item = item]
       IN  calls' = [calls EXCEPT ![c] =
             IF "get" \notin storage.methods THEN Fail(call, "TypeError")
             ELSE IF rows = {} THEN Fail(call, "ItemNotOwned")
             ELSE IF item.quantity < call.quantity
                  THEN Fail(sold, "InsufficientQuantity")
             ELSE IF call.merchantId \notin DOMAIN merchants
                  THEN Fail(sold, "MerchantNotFound")
             ELSE [sold EXCEPT !.pc = "sell_updatePlayer",
                               !.itemName = item.item_name,
                               !.totalPrice = sellPrice(item) * call.quantity]]
    /\ UNCHANGED <<event, claimedAt, storage, db, touched, job, started,
                   priceRuns, uuids, now>>

\* 1. updatePlayer(player.id, { money: player.money + totalPrice }).
sellItem_updatePlayer(c, regime) ==
    /\ calls[c].pc = "sell_updatePlayer"
    /\ LET call == calls[c]
           updates == [money |-> call.player.money + call.totalPrice]
       IN  \/ /\ ~updatePlayerRaises(updates)
              /\ players' = updatePlayer(call.player.id, updates)
              /\ calls' = [calls EXCEPT ![c].pc = "sell_remove_get"]
           \/ /\ updatePlayerRaises(updates)
              /\ calls' = [calls EXCEPT ![c] = Fail(call, "StorageError")]
              /\ UNCHANGED players
           \/ /\ MayRaise(regime)
              /\ calls' = [calls EXCEPT ![c] = Fail(call, "StorageError")]
              /\ UNCHANGED players
    /\ UNCHANGED <<event, claimedAt, storage, inventory, market, merchants,
                   trades, job, started, priceRuns, uuids, now>>
    /\ Touch(c)

\* 2. removeItemFromInventory(itemId, quantity), its first statement:
\* SELECT * FROM inventory WHERE id = ?, raising when there is no such row.
removeItemFromInventory_get(c) ==
    /\ calls[c].pc = "sell_remove_get"
    /\ LET call == calls[c]
           rows == {r \in inventory : r.id = call.itemId}
       IN  calls' = [calls EXCEPT ![c] =
             IF rows = {} THEN Fail(call, "ItemNotFound")
             ELSE [call EXCEPT !.pc = "sell_remove_run",
                               !.held = (CHOOSE r \in rows : TRUE).quantity]]
    /\ UNCHANGED <<event, claimedAt, storage, db, touched, job, started,
                   priceRuns, uuids, now>>

\* removeItemFromInventory, its second statement: DELETE the row when the
\* quantity read is <= quantity, else UPDATE quantity = quantity - ?.
removeItemFromInventory_run(c, regime) ==
    /\ calls[c].pc = "sell_remove_run"
    /\ LET call == calls[c]
       IN  \/ /\ inventory' =
                   IF call.held <= call.quantity
                   THEN {r \in inventory : r.id # call.itemId}
                   ELSE {IF r.id = call.itemId
                         THEN [r EXCEPT !.quantity = @ - call.quantity]
                         ELSE r : r \in inventory}
              /\ calls' = [calls EXCEPT ![c].pc = "sell_createTradeRecord"]
           \/ /\ MayRaise(regime)
              /\ calls' = [calls EXCEPT ![c] = Fail(call, "StorageError")]
              /\ UNCHANGED inventory
    /\ UNCHANGED <<event, claimedAt, storage, players, market, merchants,
                   trades, job, started, priceRuns, uuids, now>>
    /\ Touch(c)

\* 3. createTradeRecord({ ... tradeType: 'sell' }) and the success return.
sellItem_createTradeRecord(c, regime) ==
    /\ calls[c].pc = "sell_createTradeRecord"
    /\ LET call == calls[c]
       IN  \/ /\ trades' = createTradeRecord(
                    [sellerId |-> call.player.id, buyerId |-> "null",
                     merchantId |-> call.merchantId,
                     itemName |-> call.item.item_name, price |-> call.totalPrice,
                     quantity |-> call.quantity, tradeType |-> "sell"])
              /\ calls' = [calls EXCEPT ![c].pc = "done", ![c].success = TRUE,
                             ![c].data = [totalPrice |-> call.totalPrice,
                                          money |-> call.player.money + call.totalPrice]]
           \/ /\ MayRaise(regime)
              /\ calls' = [calls EXCEPT ![c] = Fail(call, "StorageError")]
              /\ UNCHANGED trades
    /\ UNCHANGED <<event, claimedAt, storage, players, inventory, market,
                   merchants, job, started, priceRuns, uuids, now>>
    /\ Touch(c)

\* A variant that compares the trust before the money.
upgradeLicense_getPlayerByUserId_trustFirst(c, regime) ==
    /\ MayStart(c, regime)
    /\ \E userId \in UserIds :
        LET player == getPlayerByUserId(userId)
            call == NewCall(c, "upgrade", [userId |-> userId, player |-> player])
            nextLicense == player.current_license + 1
        IN  calls' = [calls EXCEPT ![c] =
              IF player = NullPlayer THEN Fail(call, "PlayerNotFound")
              ELSE IF nextLicense > 5 THEN Fail(call, "MaxTierReached")
              ELSE IF player.trust_points < getRequiredTrustPoints(nextLicense)
                   THEN Fail(call, "InsufficientTrust")
              ELSE IF player.money < getLicenseUpgradeCost(nextLicense)
                   THEN Fail(call, "InsufficientFunds")
              ELSE [call EXCEPT !.pc = "upgrade_updatePlayer",
                                !.totalPrice = getLicenseUpgradeCost(nextLicense)]]
    /\ started' = started + 1
    /\ touched' = [touched EXCEPT ![c] = FALSE]
    /\ UNCHANGED <<event, claimedAt, storage, db, job, priceRuns, uuids, now>>

\* A variant without the check of the top tier.
upgradeLicense_getPlayerByUserId_noTop(c, regime) ==
    /\ MayStart(c, regime)
    /\ \E userId \in UserIds :
        LET player == getPlayerByUserId(userId)
            call == NewCall(c, "upgrade", [userId |-> userId, player |-> player])
            nextLicense == player.current_license + 1
        IN  calls' = [calls EXCEPT ![c] =
              IF player = NullPlayer THEN Fail(call, "PlayerNotFound")
              ELSE IF player.money < getLicenseUpgradeCost(nextLicense)
                   THEN Fail(call, "InsufficientFunds")
              ELSE IF player.trust_points < getRequiredTrustPoints(nextLicense)
                   THEN Fail(call, "InsufficientTrust")
              ELSE [call EXCEPT !.pc = "upgrade_updatePlayer",
                                !.totalPrice = getLicenseUpgradeCost(nextLicense)]]
    /\ started' = started + 1
    /\ touched' = [touched EXCEPT ![c] = FALSE]
    /\ UNCHANGED <<event, claimedAt, storage, db, job, priceRuns, uuids, now>>

\* upgradeLicense up to its second await: the player, the top tier, the
\* cost and the trust threshold of the next tier.
upgradeLicense_getPlayerByUserId(c, regime) ==
    /\ MayStart(c, regime)
    /\ \E userId \in UserIds :
        LET player == getPlayerByUserId(userId)
            call == NewCall(c, "upgrade", [userId |-> userId, player |-> player])
            nextLicense == player.current_license + 1
        IN  calls' = [calls EXCEPT ![c] =
              IF player = NullPlayer THEN Fail(call, "PlayerNotFound")
              ELSE IF nextLicense > 5 THEN Fail(call, "MaxTierReached")
              ELSE IF player.money < getLicenseUpgradeCost(nextLicense)
                   THEN Fail(call, "InsufficientFunds")
              ELSE IF player.trust_points < getRequiredTrustPoints(nextLicense)
                   THEN Fail(call, "InsufficientTrust")
              ELSE [call EXCEPT !.pc = "upgrade_updatePlayer",
                                !.totalPrice = getLicenseUpgradeCost(nextLicense)]]
    /\ started' = started + 1
    /\ touched' = [touched EXCEPT ![c] = FALSE]
    /\ UNCHANGED <<event, claimedAt, storage, db, job, priceRuns, uuids, now>>

\* updatePlayer(player.id, { current_license, money, max_inventory_size })
\* and the success return.
upgradeLicense_updatePlayer(c, regime) ==
    /\ calls[c].pc = "upgrade_updatePlayer"
    /\ LET call == calls[c]
           nextLicense == call.player.current_license + 1
           updates == [current_license |-> nextLicense,
                       money |-> call.player.money - call.totalPrice,
                       max_inventory_size |-> getInventorySize(nextLicense)]
       IN  \/ /\ ~updatePlayerRaises(updates)
              /\ players' = updatePlayer(call.player.id, updates)
              /\ calls' = [calls EXCEPT ![c].pc = "done", ![c].success = TRUE,
                             ![c].data = [totalPrice |-> call.totalPrice,
                                          money |-> call.player.money - call.totalPrice]]
           \/ /\ updatePlayerRaises(updates)
              /\ calls' = [calls EXCEPT ![c] = Fail(call, "StorageError")]
              /\ UNCHANGED players
           \/ /\ MayRaise(regime)
              /\ calls' = [calls EXCEPT ![c] = Fail(call, "StorageError")]
              /\ UNCHANGED players
    /\ UNCHANGED <<event, claimedAt, storage, inventory, market, merchants,
                   trades, job, started, priceRuns, uuids, now>>
    /\ Touch(c)

\* (now - new Date(player.last_active)) / (1000 * 60 * 60), the clock
\* counting days.
hoursSinceLastActive(player) == (now - player.last_active) * 24

\* claimDailyBonus up to its second await: the player and the 24 hours.
claimDailyBonus_getPlayerByUserId(c, regime) ==
    /\ MayStart(c, regime)
    /\ \E userId \in UserIds :
        LET player == getPlayerByUserId(userId)
            call == NewCall(c, "claim", [userId |-> userId, player |-> player])
        IN  calls' = [calls EXCEPT ![c] =
              IF player = NullPlayer THEN Fail(call, "PlayerNotFound")
              ELSE IF hoursSinceLastActive(player) < 24
                   THEN Fail(call, "BonusNotYetAvailable")
              ELSE [call EXCEPT !.pc = "claim_updatePlayer",
                                !.totalPrice = 5000 * player.current_license]]
    /\ started' = started + 1
    /\ touched' = [touched EXCEPT ![c] = FALSE]
    /\ UNCHANGED <<event, claimedAt, storage, db, job, priceRuns, uuids, now>>

\* updatePlayer(player.id, { money, trust_points }) and the success return.
claimDailyBonus_updatePlayer(c, regime) ==
    /\ calls[c].pc = "claim_updatePlayer"
    /\ LET call == calls[c]
           updates == [money |-> call.player.money + call.totalPrice,
                       trust_points |-> call.player.trust_points + 5]
       IN  \/ /\ ~updatePlayerRaises(updates)
              /\ players' = updatePlayer(call.player.id, updates)
              /\ calls' = [calls EXCEPT ![c].pc = "done", ![c].success = TRUE,
                             ![c].data = [totalPrice |-> call.totalPrice,
                                          money |-> call.player.money + call.totalPrice]]
              /\ claimedAt' = [claimedAt EXCEPT ![call.player.id] = now]
           \/ /\ updatePlayerRaises(updates)
              /\ calls' = [calls EXCEPT ![c] = Fail(call, "StorageError")]
              /\ UNCHANGED <<players, claimedAt>>
           \/ /\ MayRaise(regime)
              /\ calls' = [calls EXCEPT ![c] = Fail(call, "StorageError")]
              /\ UNCHANGED <<players, claimedAt>>
    /\ UNCHANGED <<event, storage, inventory, market, merchants, trades, job,
                   started, priceRuns, uuids, now>>
    /\ Touch(c)

\* The route handler has sent the response; the slot is free again.
Respond(c) ==
    /\ calls[c].pc = "done"
    /\ calls' = [calls EXCEPT ![c] = IdleCall]
    /\ touched' = [touched EXCEPT ![c] = FALSE]
    /\ UNCHANGED <<event, claimedAt, storage, db, job, started, priceRuns,
                   uuids, now>>

\* ------------------------------------------------------ price recomputation

\* ORDER BY item_name: the grade word of "mid" sorts before that of "common".
ItemOrder == <<ItemITMid, ItemITCommon, ItemRelic>>

\* SELECT * FROM market_prices ORDER BY item_name
getAllMarketPrices ==
    LET names == SelectSeq(ItemOrder, LAMBDA n : n \in DOMAIN market)
    IN  [i \in 1..Len(names) |-> [item_name |-> names[i]] @@ market[names[i]]]

Max(a, b) == IF a >= b THEN a ELSE b
Min(a, b) == IF a <= b THEN a ELSE b

\* A variant without the lower clamp.
newPrice_noLowerClamp(price, variation) ==
    Min((price.base_price * 3) \div 2,
        (price.current_price * (100 + variation)) \div 100)

\* Math.max(floor(base * 0.5), Math.min(floor(base * 1.5),
\*          floor(current * (1 + variation)))), the variation in percent.
newPrice(price, variation) ==
    Max(price.base_price \div 2,
        Min((price.base_price * 3) \div 2,
            (price.current_price * (100 + variation)) \div 100))

\* A variant that moves the base price along with the current price.
updateMarketPrice_rebases(itemName, price) ==
    [n \in DOMAIN market |->
        IF n = itemName
        THEN [market[n] EXCEPT !.current_price = price, !.base_price = price]
        ELSE market[n]]

\* The market_prices table after updateMarketPrice(itemName, newPrice).
updateMarketPrice(itemName, price) ==
    [n \in DOMAIN market |->
        IF n = itemName THEN [market[n] EXCEPT !.current_price = price]
        ELSE market[n]]

\* The setInterval callback starts updateMarketPrices: the rows are read.
updateMarketPrices_getAllMarketPrices(regime) ==
    /\ job.pc = "idle"
    /\ priceRuns < MaxPriceRuns
    /\ regime.exclusive => \A c \in Slots : calls[c].pc = "idle"
    /\ job' = [pc |-> "update", prices |-> getAllMarketPrices, i |-> 1]
    /\ priceRuns' = priceRuns + 1
    /\ UNCHANGED <<event, claimedAt, storage, db, calls, touched, started,
                   uuids, now>>

\* One turn of the loop: a draw, the new price, updateMarketPrice.
updateMarketPrices_updateMarketPrice ==
    /\ job.pc = "update"
    /\ \E variation \in Variations :
        LET price == job.prices[job.i]
        IN  market' = updateMarketPrice(price.item_name, newPrice(price, variation))
    /\ job' = IF job.i = Len(job.prices) THEN IdleJob
              ELSE [job EXCEPT !.i = @ + 1]
    /\ UNCHANGED <<event, claimedAt, storage, players, inventory, merchants,
                   trades, calls, touched, started, priceRuns, uuids, now>>

\* Math.floor(randomItem.current_price * 1.5)
surgePrice(price) == (price.current_price * 3) \div 2

\* Math.floor(price.current_price * 0.8)
discountPrice(price) == (price.current_price * 8) \div 10

\* triggerRandomEvent up to the first await of the effect drawn: the event
\* type, getAllMarketPrices and, for a price_surge, the item drawn.
triggerRandomEvent_getAllMarketPrices ==
    /\ event.pc = "idle"
    /\ event.runs < MaxEvents
    /\ \E type \in {"price_surge", "discount_event"} :
       \E i \in 1..Len(getAllMarketPrices) :
          /\ type = "discount_event" => i = 1
          /\ event' = [pc |-> type, prices |-> getAllMarketPrices, i |-> i,
                       runs |-> event.runs + 1]
    /\ UNCHANGED <<claimedAt, storage, db, calls, touched, job, started,
                   priceRuns, uuids, now>>

\* One updateMarketPrice of the effect: the surge of the item drawn, or one
\* turn of the loop of the discount.
triggerRandomEvent_updateMarketPrice ==
    /\ event.pc \in {"price_surge", "discount_event"}
    /\ LET price == event.prices[event.i]
       IN  IF event.pc = "price_surge"
           THEN /\ market' = updateMarketPrice(price.item_name, surgePrice(price))
                /\ event' = [IdleEvent EXCEPT !.runs = event.runs]
           ELSE /\ market' = updateMarketPrice(price.item_name,
                                               discountPrice(price))
                /\ event' = IF event.i = Len(event.prices)
                            THEN [IdleEvent EXCEPT !.runs = event.runs]
                            ELSE [event EXCEPT !.i = @ + 1]
    /\ UNCHANGED <<claimedAt, storage, players, inventory, merchants, trades,
                   calls, touched, job, started, priceRuns, uuids, now>>

\* A day passes.
Tick ==
    /\ now < MaxDays
    /\ now' = now + 1
    /\ UNCHANGED <<event, claimedAt, storage, db, calls, touched, job, started,
                   priceRuns, uuids>>

\* ------------------------------------------------------------ specification

Init ==
    /\ storage \in {StorageAsWritten, StorageCollaborator}
    /\ players \in {[p \in PlayerIds |->
                        IF p = "p1" THEN row ELSE NewPlayer("u2")] :
                    row \in {NewPlayer("u1"), SeasonedPlayer("u1")}}
    /\ inventory = {}
    /\ market = MarketSeed
    /\ merchants = MerchantSeed
    /\ trades = <<>>
    /\ calls = [c \in Slots |-> IdleCall]
    /\ touched = [c \in Slots |-> FALSE]
    /\ job = IdleJob
    /\ started = 0
    /\ priceRuns = 0
    /\ uuids = 0
    /\ now = 0
    /\ claimedAt = [p \in PlayerIds |-> -1]
    /\ event = IdleEvent

Step(regime) ==
    \/ \E c \in Slots :
        \/ buyItem_getPlayerByUserId(c, regime)
        \/ buyItem_getMarketPrice(c)
        \/ buyItem_getPlayerInventory(c)
        \/ buyItem_updatePlayer(c, regime)
        \/ buyItem_addItemToInventory(c, regime)
        \/ buyItem_createTradeRecord(c, regime)
        \/ sellItem_getPlayerByUserId(c, regime)
        \/ sellItem_get(c)
        \/ sellItem_updatePlayer(c, regime)
        \/ removeItemFromInventory_get(c)
        \/ removeItemFromInventory_run(c, regime)
        \/ sellItem_createTradeRecord(c, regime)
        \/ upgradeLicense_getPlayerByUserId(c, regime)
        \/ upgradeLicense_updatePlayer(c, regime)
        \/ claimDailyBonus_getPlayerByUserId(c, regime)
        \/ claimDailyBonus_updatePlayer(c, regime)
        \/ Respond(c)
    \/ updateMarketPrices_getAllMarketPrices(regime)
    \/ updateMarketPrices_updateMarketPrice
    \/ Tick

\* Requests as the server takes them.
Next == Step(Concurrent)
Spec == Init /\ [][Next]_vars

\* Requests served one at a time, quantities >= 1.
NextSeq == Step(OneAtATime)
SpecSeq == Init /\ [][NextSeq]_vars

\* Requests served one at a time, quantities >= 1, a write raising now and
\* then.
NextSeqRaising == Step(OneAtATimeRaising)
SpecSeqRaising == Init /\ [][NextSeqRaising]_vars

\* Buys of one request at a time while the setInterval price recomputation
\* runs at any of their awaits.
NextRace ==
    \/ buyItem_getPlayerByUserId(1, Racing)
    \/ buyItem_getMarketPrice(1)
    \/ buyItem_getPlayerInventory(1)
    \/ buyItem_updatePlayer(1, Racing)
    \/ buyItem_addItemToInventory(1, Racing)
    \/ buyItem_createTradeRecord(1, Racing)
    \/ Respond(1)
    \/ updateMarketPrices_getAllMarketPrices(Racing)
    \/ updateMarketPrices_updateMarketPrice
SpecRace == Init /\ [][NextRace]_vars

\* Requests of the four operations that may overlap, quantities of at least
\* one, over a storage that answers.
NextOverlap ==
    \/ \E c \in Slots :
         \/ buyItem_getPlayerByUserId(c, Overlapping)
         \/ buyItem_getMarketPrice(c)
         \/ buyItem_getPlayerInventory(c)
         \/ buyItem_updatePlayer(c, Overlapping)
         \/ buyItem_addItemToInventory(c, Overlapping)
         \/ buyItem_createTradeRecord(c, Overlapping)
         \/ sellItem_getPlayerByUserId(c, Overlapping)
         \/ sellItem_get(c)
         \/ sellItem_updatePlayer(c, Overlapping)
         \/ removeItemFromInventory_get(c)
         \/ removeItemFromInventory_run(c, Overlapping)
         \/ sellItem_createTradeRecord(c, Overlapping)
         \/ upgradeLicense_getPlayerByUserId(c, Overlapping)
         \/ upgradeLicense_updatePlayer(c, Overlapping)
         \/ claimDailyBonus_getPlayerByUserId(c, Overlapping)
         \/ claimDailyBonus_updatePlayer(c, Overlapping)
         \/ Respond(c)
    \/ Tick
SpecOverlap == Init /\ [][NextOverlap]_vars

\* Buys and sells of one request at a time while the price recomputation
\* runs at any of their awaits.
NextResale ==
    \/ buyItem_getPlayerByUserId(1, Racing)
    \/ buyItem_getMarketPrice(1)
    \/ buyItem_getPlayerInventory(1)
    \/ buyItem_updatePlayer(1, Racing)
    \/ buyItem_addItemToInventory(1, Racing)
    \/ buyItem_createTradeRecord(1, Racing)
    \/ sellItem_getPlayerByUserId(1, Racing)
    \/ sellItem_get(1)
    \/ sellItem_updatePlayer(1, Racing)
    \/ removeItemFromInventory_get(1)
    \/ removeItemFromInventory_run(1, Racing)
    \/ sellItem_createTradeRecord(1, Racing)
    \/ Respond(1)
    \/ updateMarketPrices_getAllMarketPrices(Racing)
    \/ updateMarketPrices_updateMarketPrice
SpecResale == Init /\ [][NextResale]_vars

\* The market alone: the price recomputation and triggerRandomEvent, each at
\* any await of the other.
NextEvent ==
    \/ updateMarketPrices_getAllMarketPrices(Racing)
    \/ updateMarketPrices_updateMarketPrice
    \/ triggerRandomEvent_getAllMarketPrices
    \/ triggerRandomEvent_updateMarketPrice
SpecEvent == Init /\ [][NextEvent]_vars

\* The steps of the request in slot c after its first: each is the answer of
\* the storage operation the request awaits.
Continue(c, regime) ==
    \/ buyItem_getMarketPrice(c)
    \/ buyItem_getPlayerInventory(c)
    \/ buyItem_updatePlayer(c, regime)
    \/ buyItem_addItemToInventory(c, regime)
    \/ buyItem_createTradeRecord(c, regime)
    \/ sellItem_get(c)
    \/ sellItem_updatePlayer(c, regime)
    \/ removeItemFromInventory_get(c)
    \/ removeItemFromInventory_run(c, regime)
    \/ sellItem_createTradeRecord(c, regime)
    \/ upgradeLicense_updatePlayer(c, regime)
    \/ claimDailyBonus_updatePlayer(c, regime)

\* Requests as the server takes them, every storage operation answering in
\* the end: an awaited promise settles, and the event loop then resumes the
\* call or the loop of the recomputation that awaits it.
NextLive ==
    \/ buyItem_getPlayerByUserId(1, Racing)
    \/ sellItem_getPlayerByUserId(1, Racing)
    \/ \E c \in Slots :
         \/ upgradeLicense_getPlayerByUserId(c, Racing)
         \/ claimDailyBonus_getPlayerByUserId(c, Racing)
         \/ Continue(c, Racing)
         \/ Respond(c)
    \/ updateMarketPrices_getAllMarketPrices(Racing)
    \/ updateMarketPrices_updateMarketPrice
    \/ Tick
Responsive ==
    /\ \A c \in Slots : WF_vars(Continue(c, Racing))
    /\ WF_vars(updateMarketPrices_updateMarketPrice)
SpecLive == Init /\ [][NextLive]_vars /\ Responsive

\* Buys, and sells of the rows bought that may overlap one another.
NextSell ==
    \/ buyItem_getPlayerByUserId(1, Selling)
    \/ buyItem_getMarketPrice(1)
    \/ buyItem_getPlayerInventory(1)
    \/ buyItem_updatePlayer(1, Selling)
    \/ buyItem_addItemToInventory(1, Selling)
    \/ buyItem_createTradeRecord(1, Selling)
    \/ \E c \in Slots :
         \/ sellItem_getPlayerByUserId(c, Selling)
         \/ sellItem_get(c)
         \/ sellItem_updatePlayer(c, Selling)
         \/ removeItemFromInventory_get(c)
         \/ removeItemFromInventory_run(c, Selling)
         \/ sellItem_createTradeRecord(c, Selling)
         \/ Respond(c)
SpecSell == Init /\ [][NextSell]_vars

\* One request at a time as the routes hand it over, the sell quantity
\* unchecked, over a storage whose writes may raise.
NextFaults ==
    \/ buyItem_getPlayerByUserId(1, Concurrent)
    \/ buyItem_getMarketPrice(1)
    \/ buyItem_getPlayerInventory(1)
    \/ buyItem_updatePlayer(1, Concurrent)
    \/ buyItem_addItemToInventory(1, Concurrent)
    \/ buyItem_createTradeRecord(1, Concurrent)
    \/ sellItem_getPlayerByUserId(1, Concurrent)
    \/ sellItem_get(1)
    \/ sellItem_updatePlayer(1, Concurrent)
    \/ removeItemFromInventory_get(1)
    \/ removeItemFromInventory_run(1, Concurrent)
    \/ sellItem_createTradeRecord(1, Concurrent)
    \/ upgradeLicense_getPlayerByUserId(1, Concurrent)
    \/ upgradeLicense_updatePlayer(1, Concurrent)
    \/ claimDailyBonus_getPlayerByUserId(1, Concurrent)
    \/ claimDailyBonus_updatePlayer(1, Concurrent)
    \/ Respond(1)
    \/ Tick
SpecFaults == Init /\ [][NextFaults]_vars

\* The license ladder on its own: a player at any tier, with the capacity
\* of that tier, money and trust just under, at and above each cost and
\* threshold, and one inventory row from an earlier buy.
Tiers == 1..5
LadderMoney ==
    {0, 99999, 100000, 249999, 250000, 499999, 500000, 999999, 1000000, 1350000}
LadderTrust == {0, 49, 50, 149, 150, 299, 300, 499, 500}
LadderPlayer(userId, tier, money, trust) ==
    [NewPlayer(userId) EXCEPT !.current_license = tier,
                              !.max_inventory_size = getInventorySize(tier),
                              !.money = money, !.trust_points = trust]
LadderRow ==
    [id |-> 1, player_id |-> "p1", item_name |-> ItemITCommon,
     base_price |-> 5000, current_price |-> 5000,
     item_grade |-> determineItemGrade(ItemITCommon),
     required_license |-> getRequiredLicense(ItemITCommon), quantity |-> 1]

InitLadder ==
    /\ storage \in {StorageAsWritten, StorageCollaborator}
    /\ players \in {[p \in PlayerIds |->
                        IF p = "p1" THEN LadderPlayer("u1", t, m, tr)
                        ELSE NewPlayer("u2")] :
                    t \in Tiers, m \in LadderMoney, tr \in LadderTrust}
    /\ inventory = {LadderRow}
    /\ market = MarketSeed
    /\ merchants = MerchantSeed
    /\ trades = <<>>
    /\ calls = [c \in Slots |-> IdleCall]
    /\ touched = [c \in Slots |-> FALSE]
    /\ job = IdleJob
    /\ started = 0
    /\ priceRuns = 0
    /\ uuids = 1
    /\ now = 0
    /\ claimedAt = [p \in PlayerIds |-> -1]
    /\ event = IdleEvent

NextLadder ==
    \E c \in Slots :
        \/ upgradeLicense_getPlayerByUserId(c, OneAtATime)
        \/ upgradeLicense_updatePlayer(c, OneAtATime)
        \/ Respond(c)
SpecLadder == InitLadder /\ [][NextLadder]_vars

\* The price recomputation on its own: one market row of any base price and
\* any stored current price, and any whole-percent draw of
\* (Math.random() - 0.5) * 0.4.
VariationRange == -20..20

InitPrice ==
    /\ storage = StorageCollaborator
    /\ players = [p \in PlayerIds |-> NewPlayer(IF p = "p1" THEN "u1" ELSE "u2")]
    /\ inventory = {}
    /\ market \in {(ItemITCommon :> [base_price |-> b, current_price |-> c]) :
                      b \in 1..MaxBasePrice, c \in 0..MaxStoredPrice}
    /\ merchants = MerchantSeed
    /\ trades = <<>>
    /\ calls = [c \in Slots |-> IdleCall]
    /\ touched = [c \in Slots |-> FALSE]
    /\ job = IdleJob
    /\ started = 0
    /\ priceRuns = 0
    /\ uuids = 0
    /\ now = 0
    /\ claimedAt = [p \in PlayerIds |-> -1]
    /\ event = IdleEvent

\* updateMarketPrices over the one row, with any draw.
updateMarketPrices_anyDraw ==
    /\ priceRuns < MaxPriceRuns
    /\ \E variation \in VariationRange : \E n \in DOMAIN market :
        market' = updateMarketPrice(n,
                     newPrice([item_name |-> n] @@ market[n], variation))
    /\ priceRuns' = priceRuns + 1
    /\ UNCHANGED <<event, claimedAt, storage, players, inventory, merchants,
                   trades, calls, touched, job, started, uuids, now>>

NextPrice == updateMarketPrices_anyDraw
SpecPrice == InitPrice /\ [][NextPrice]_vars

----------------------------------------------------------------------------
\* Properties.

Done(c) == calls[c].pc = "done"
Trade(c) == calls[c].op \in {"buy", "sell"}
Succeeded(c) == Done(c) /\ calls[c].success
Failed(c) == Done(c) /\ ~calls[c].success

\* Two buys of one player of which the second began while the first was
\* still in flight, both answered.
ConcurrentBuys(c, d) ==
    /\ Done(c) /\ Done(d)
    /\ calls[c].op = "buy" /\ calls[d].op = "buy"
    /\ calls[c].player # NullPlayer
    /\ calls[c].player.id = calls[d].player.id
    /\ calls[d].overlap = calls[c].seq

\* C1: with trades run one at a time and quantities of at least one, the
\* units a player holds never exceed the player's max_inventory_size.
C1_OccupancyWithinCapacity ==
    \A p \in PlayerIds : totalItems(p) <= players[p].max_inventory_size

\* A player filled to capacity by a buy that has been recorded.
C1_Witness ==
    \E p \in PlayerIds :
        /\ totalItems(p) = players[p].max_inventory_size
        /\ \E i \in DOMAIN trades :
              trades[i].buyer_id = p /\ trades[i].trade_type = "buy"

\* C2: whatever operations have run, every player's money is at least zero.
C2_MoneyNeverNegative ==
    \A p \in PlayerIds : players[p].money >= 0

\* C3: when two concurrent buys of one player both succeed, the player's
\* money is the money before the first minus both total prices.
C3_BothBuysCharged ==
    \A c \in Slots : \A d \in Slots \ {c} :
        (ConcurrentBuys(c, d) /\ calls[c].success /\ calls[d].success) =>
            players[calls[c].player.id].money =
                calls[c].player.money - calls[c].totalPrice - calls[d].totalPrice

\* C4: when two concurrent buys of one player have both completed, the units
\* the player holds do not exceed the player's max_inventory_size.
C4_ConcurrentBuysWithinCapacity ==
    \A c \in Slots : \A d \in Slots \ {c} :
        ConcurrentBuys(c, d) =>
            totalItems(calls[c].player.id) <=
                players[calls[c].player.id].max_inventory_size

\* The errors a buy or a sell answers with when a write of its commit phase
\* raises.
CommitErrors == {"StorageError", "ItemNotFound"}

\* C5: a buy or a sell that fails because a write of its commit phase raised
\* leaves no change of its own in the tables.
C5_FailedCommitRolledBack ==
    \A c \in Slots :
        (Failed(c) /\ Trade(c) /\ calls[c].error \in CommitErrors) => ~touched[c]

\* The errors a buy or a sell answers with when one of its checks fails.
BuyCheckOrder ==
    <<"PlayerNotFound", "MerchantNotFound", "LicenseInsufficient",
      "ItemNotOffered", "PriceNotFound", "InsufficientFunds", "InventoryFull">>
BuyCheckErrors == {BuyCheckOrder[i] : i \in DOMAIN BuyCheckOrder}
SellCheckErrors ==
    {"PlayerNotFound", "ItemNotOwned", "InsufficientQuantity", "MerchantNotFound"}

\* C6: a buy or a sell that fails one of its checks leaves no change of its
\* own in players, inventory, market prices, merchants or the trade log.
C6_FailedCheckChangesNothing ==
    \A c \in Slots :
        (Failed(c) /\ Trade(c)
           /\ calls[c].error \in
                (IF calls[c].op = "buy" THEN BuyCheckErrors ELSE SellCheckErrors))
        => ~touched[c]

\* A buy refused for want of space after an earlier trade was recorded.
C6_Witness ==
    /\ trades # <<>>
    /\ \E c \in Slots :
          Failed(c) /\ calls[c].op = "buy" /\ calls[c].error = "InventoryFull"

\* The trade record a successful call is to leave.
ExpectedTrade(call) ==
    [seller_id |-> IF call.op = "sell" THEN call.player.id ELSE "null",
     buyer_id |-> IF call.op = "buy" THEN call.player.id ELSE "null",
     merchant_id |-> call.merchantId, item_name |-> call.itemName,
     price |-> call.data.totalPrice, quantity |-> call.quantity,
     trade_type |-> call.op]

\* A step in which a buy or a sell in slot c is answered.
Answers(c) == calls[c].pc # "done" /\ calls'[c].pc = "done" /\ calls'[c].op \in {"buy", "sell"}

\* C7: the step that answers a successful buy or sell appends exactly one
\* trade record, of the call's type, player, merchant, total price and
\* quantity; every other step leaves the trade log as it is.
C7_OneTradeRecordPerSuccess ==
    [][ /\ \A c \in Slots :
              (Answers(c) /\ calls'[c].success) =>
                  trades' = Append(trades, ExpectedTrade(calls'[c]))
        /\ (\A c \in Slots : ~(Answers(c) /\ calls'[c].success)) =>
                  trades' = trades ]_vars

\* C8: a buy succeeds only for a player whose license is at least the
\* merchant's required license and at least the item's required license.
C8_BuyRespectsBothLicenses ==
    \A c \in Slots :
        (Succeeded(c) /\ calls[c].op = "buy") =>
            /\ calls[c].player.current_license >=
                  merchants[calls[c].merchantId].required_license
            /\ calls[c].player.current_license >=
                  getRequiredLicense(calls[c].itemName)

\* Whether the named check of a buy fails for the call in slot c, read from
\* the tables as they are.
BuyCheckFails(c, error) ==
    LET call == calls[c]
        known == \E p \in PlayerIds : players[p].user_id = call.userId
        p == CHOOSE q \in PlayerIds : players[q].user_id = call.userId
        listed == call.merchantId \in DOMAIN merchants
        priced == call.itemName \in DOMAIN market
    IN  CASE error = "PlayerNotFound" -> ~known
          [] error = "MerchantNotFound" -> ~listed
          [] error = "LicenseInsufficient" ->
                known /\ listed /\
                players[p].current_license < merchants[call.merchantId].required_license
          [] error = "ItemNotOffered" ->
                listed /\ call.itemName \notin merchants[call.merchantId].inventory
          [] error = "PriceNotFound" -> ~priced
          [] error = "InsufficientFunds" ->
                known /\ priced /\
                players[p].money < market[call.itemName].current_price * call.quantity
          [] error = "InventoryFull" ->
                known /\
                totalItems(p) + call.quantity > players[p].max_inventory_size

\* The first check of BuyCheckOrder that fails for the call in slot c, or
\* "none".
FirstFailingBuyCheck(c) ==
    LET failing == {i \in DOMAIN BuyCheckOrder : BuyCheckFails(c, BuyCheckOrder[i])}
    IN  IF failing = {} THEN "none"
        ELSE BuyCheckOrder[CHOOSE i \in failing : \A j \in failing : i <= j]

\* C9: a buy that fails a check answers with the first failing check in the
\* order PlayerNotFound, MerchantNotFound, LicenseInsufficient,
\* ItemNotOffered, PriceNotFound, InsufficientFunds, InventoryFull; and a buy
\* reaches its first write only when no check fails.
C9_FirstFailingCheckReported ==
    \A c \in Slots :
        /\ (Failed(c) /\ calls[c].op = "buy" /\ calls[c].error \in BuyCheckErrors)
              => calls[c].error = FirstFailingBuyCheck(c)
        /\ calls[c].pc = "buy_updatePlayer" => FirstFailingBuyCheck(c) = "none"

\* A buy that lacks both the license and the merchant's offer answers
\* LicenseInsufficient.
C9_Witness ==
    \E c \in Slots :
        /\ Failed(c) /\ calls[c].op = "buy"
        /\ calls[c].error = "LicenseInsufficient"
        /\ BuyCheckFails(c, "ItemNotOffered")

\* A buy that lacks both the funds and the space answers InsufficientFunds.
C9_FundsBeforeSpace ==
    \E c \in Slots :
        /\ Failed(c) /\ calls[c].op = "buy"
        /\ calls[c].error = "InsufficientFunds"
        /\ BuyCheckFails(c, "InventoryFull")

\* C10: a successful buy of quantity q at price p, with trades run one at a
\* time, leaves the player's money lower by p * q, adds a row of q units
\* tagged with the market's base and current price, and returns p * q as
\* totalPrice and the stored money as the remaining balance.
C10_BuyChargesAndStocks ==
    \A c \in Slots :
        (Succeeded(c) /\ calls[c].op = "buy") =>
            LET call == calls[c]
                price == market[call.itemName]
                total == price.current_price * call.quantity
            IN  /\ players[call.player.id].money = call.player.money - total
                /\ \E r \in inventory :
                      /\ r.id = call.rowId
                      /\ r.player_id = call.player.id
                      /\ r.item_name = call.itemName
                      /\ r.quantity = call.quantity
                      /\ r.base_price = price.base_price
                      /\ r.current_price = price.current_price
                /\ call.data.totalPrice = total
                /\ call.data.money = players[call.player.id].money

\* A player with 50000 buys 2 units at 5000: money 40000, two units held,
\* one buy record of 10000.
C10_Witness ==
    \E c \in Slots :
        /\ Succeeded(c) /\ calls[c].op = "buy"
        /\ calls[c].player.money = 50000 /\ calls[c].quantity = 2
        /\ calls[c].marketPrice.current_price = 5000
        /\ players[calls[c].player.id].money = 40000
        /\ totalItems(calls[c].player.id) = 2
        /\ calls[c].data = [totalPrice |-> 10000, money |-> 40000]
        /\ Len(trades) = 1 /\ trades[1].trade_type = "buy" /\ trades[1].price = 10000

\* C11: a player holds at most one inventory row per item name.
C11_OneRowPerItem ==
    \A r1 \in inventory : \A r2 \in inventory :
        (r1.player_id = r2.player_id /\ r1.item_name = r2.item_name) => r1 = r2

\* The checks of a sell in the order the contract gives them.
SellCheckOrder ==
    <<"PlayerNotFound", "ItemNotOwned", "InsufficientQuantity", "MerchantNotFound">>

\* Whether the named check of a sell fails for the call in slot c, read from
\* the tables as they are.
SellCheckFails(c, error) ==
    LET call == calls[c]
        known == \E p \in PlayerIds : players[p].user_id = call.userId
        p == CHOOSE q \in PlayerIds : players[q].user_id = call.userId
        owned == {r \in inventory : r.id = call.itemId /\ r.player_id = p}
    IN  CASE error = "PlayerNotFound" -> ~known
          [] error = "ItemNotOwned" -> known /\ owned = {}
          [] error = "InsufficientQuantity" ->
                known /\ \E r \in owned : r.quantity < call.quantity
          [] error = "MerchantNotFound" -> call.merchantId \notin DOMAIN merchants

\* The first check of SellCheckOrder that fails for the call in slot c, or
\* "none".
FirstFailingSellCheck(c) ==
    LET failing == {i \in DOMAIN SellCheckOrder : SellCheckFails(c, SellCheckOrder[i])}
    IN  IF failing = {} THEN "none"
        ELSE SellCheckOrder[CHOOSE i \in failing : \A j \in failing : i <= j]

C13_SellPaysAndRemoves ==
    \A c \in Slots :
        (Succeeded(c) /\ calls[c].op = "sell") =>
            LET call == calls[c]
                total == ((call.item.current_price * 9) \div 10) * call.quantity
                left == {r \in inventory : r.id = call.itemId}
            IN  /\ players[call.player.id].money = call.player.money + total
                /\ IF call.item.quantity = call.quantity
                   THEN left = {}
                   ELSE left = {[call.item EXCEPT
                                   !.quantity = call.item.quantity - call.quantity]}
                /\ call.data.totalPrice = total
                /\ call.data.money = players[call.player.id].money

\* A player with 40000 and 2 units bought at 5000 sells 1: receives 4500,
\* money 44500, 1 unit left in the row.
C13_Witness ==
    \E c \in Slots :
        /\ Succeeded(c) /\ calls[c].op = "sell"
        /\ calls[c].player.money = 40000 /\ calls[c].quantity = 1
        /\ calls[c].item.quantity = 2 /\ calls[c].item.current_price = 5000
        /\ calls[c].data = [totalPrice |-> 4500, money |-> 44500]
        /\ players[calls[c].player.id].money = 44500
        /\ \E r \in inventory : r.id = calls[c].itemId /\ r.quantity = 1

\* A sell of every unit of a row has deleted the row.
C13_RowDeleted ==
    \E c \in Slots :
        /\ Succeeded(c) /\ calls[c].op = "sell"
        /\ calls[c].item.quantity = calls[c].quantity
        /\ \A r \in inventory : r.id # calls[c].itemId

\* The inventory rows with the id a sell names that belong to the caller.
OwnedRows(c) ==
    {r \in inventory :
        r.id = calls[c].itemId /\ r.player_id = calls[c].player.id}

BuyThenSell(c) ==
    /\ Succeeded(c) /\ calls[c].op = "sell" /\ calls[c].seq = 2
    /\ Len(trades) = 2
    /\ trades[1].trade_type = "buy"
    /\ trades[1].buyer_id = calls[c].player.id
    /\ trades[1].item_name = calls[c].itemName
    /\ trades[1].quantity = calls[c].quantity
    /\ calls[c].item.quantity = calls[c].quantity
    /\ market[calls[c].itemName].current_price * calls[c].quantity = trades[1].price

\* C15: after a successful buy of q units immediately followed by a sell of
\* the same q units at an unchanged market price, the player's money is at
\* most the money before the buy (the money the sell found plus the price
\* the buy recorded).
C15_NoGainFromBuyThenSell ==
    \A c \in Slots :
        BuyThenSell(c) =>
            players[calls[c].player.id].money <=
                calls[c].player.money + trades[1].price

\* 2 units bought at 5000 and sold at once: 10000 paid, 9000 received.
C15_Witness ==
    \E c \in Slots :
        /\ BuyThenSell(c)
        /\ calls[c].quantity = 2 /\ trades[1].price = 10000
        /\ players[calls[c].player.id].money = calls[c].player.money + 9000

AnswersUpgrade(c) ==
    /\ calls[c].pc # "done" /\ calls'[c].pc = "done"
    /\ calls'[c].op = "upgrade" /\ calls'[c].player # NullPlayer

\* C17: in every step each player's tier stays within 1..5 and does not
\* decrease; the step that answers a successful upgradeLicense leaves the
\* tier exactly one above the tier the call found; a call that finds tier 5
\* is answered MaxTierReached and has changed nothing.
C17_TierStepsByOneUpToFive ==
    [][ /\ \A p \in PlayerIds :
              /\ players'[p].current_license \in 1..5
              /\ players'[p].current_license >= players[p].current_license
        /\ \A c \in Slots :
              AnswersUpgrade(c) =>
                  LET call == calls'[c]
                      found == call.player.current_license
                      tier == players'[call.player.id].current_license
                  IN  /\ tier = IF call.success THEN found + 1 ELSE found
                      /\ found = 5 =>
                            /\ ~call.success /\ call.error = "MaxTierReached"
                            /\ ~touched'[c]
                            /\ players' = players ]_vars

\* An upgrade from tier 4 has been answered with success and the player is
\* at tier 5.
C17_Witness ==
    \E c \in Slots :
        /\ Succeeded(c) /\ calls[c].op = "upgrade"
        /\ calls[c].player.current_license = 4
        /\ players[calls[c].player.id].current_license = 5

\* An upgrade asked at tier 5 has been answered MaxTierReached.
C17_TopRefused ==
    \E c \in Slots :
        /\ Failed(c) /\ calls[c].op = "upgrade"
        /\ calls[c].player.current_license = 5
        /\ calls[c].error = "MaxTierReached"

\* The cost and the trust threshold of tiers 2..5 as the contract lists
\* them.
LadderCost == <<0, 100000, 250000, 500000, 1000000>>
LadderThreshold == <<0, 50, 150, 300, 500>>

\* The stored row of the caller is the row the call found.
RowAsFound(c) ==
    \A f \in DOMAIN players[calls[c].player.id] :
        players[calls[c].player.id][f] = calls[c].player[f]

\* C18: an upgradeLicense call of a player below tier 5 succeeds only with
\* money >= cost and trust >= threshold of the next tier; with too little
\* money it is answered InsufficientFunds, whatever the trust; with enough
\* money and too little trust it is answered InsufficientTrust; a call
\* answered either way has left the player's row as it was.
C18_UpgradeEligibility ==
    \A c \in Slots :
        (Done(c) /\ calls[c].op = "upgrade" /\ calls[c].player # NullPlayer
           /\ calls[c].player.current_license < 5) =>
            LET call == calls[c]
                cost == LadderCost[call.player.current_license + 1]
                threshold == LadderThreshold[call.player.current_license + 1]
                poor == call.player.money < cost
                unknown == call.player.trust_points < threshold
            IN  /\ call.success => (~poor /\ ~unknown)
                /\ poor => (~call.success /\ call.error = "InsufficientFunds")
                /\ (~poor /\ unknown) =>
                      (~call.success /\ call.error = "InsufficientTrust")
                /\ (~call.success /\ call.error \in {"InsufficientFunds", "InsufficientTrust"})
                      => (RowAsFound(c) /\ ~touched[c] /\ (poor \/ unknown))
                /\ (~poor /\ ~unknown /\ storage = StorageCollaborator)
                      => call.success

\* A call with too little money and too little trust is answered
\* InsufficientFunds.
C18_Witness ==
    \E c \in Slots :
        /\ Failed(c) /\ calls[c].op = "upgrade"
        /\ calls[c].error = "InsufficientFunds"
        /\ calls[c].player.current_license = 2
        /\ calls[c].player.money = 249999
        /\ calls[c].player.trust_points = 149

\* A call with enough money and too little trust is answered
\* InsufficientTrust.
C18_TrustRefused ==
    \E c \in Slots :
        /\ Failed(c) /\ calls[c].op = "upgrade"
        /\ calls[c].error = "InsufficientTrust"
        /\ calls[c].player.current_license = 4
        /\ calls[c].player.money = 1000000
        /\ calls[c].player.trust_points = 499

\* The capacity of tiers 1..5 as the contract lists them.
LadderCapacity == <<5, 8, 12, 16, 20>>

\* C19: after a successful upgradeLicense the player's money is the money
\* found minus the cost of the next tier, max_inventory_size is the capacity
\* of the next tier, the tier is the next tier, and the trust points, the
\* other columns of the row and the inventory rows are as they were.
C19_UpgradeChargesAndResizes ==
    \A c \in Slots :
        (Succeeded(c) /\ calls[c].op = "upgrade") =>
            LET found == calls[c].player
                row == players[found.id]
                next == found.current_license + 1
            IN  /\ row.money = found.money - LadderCost[next]
                /\ row.max_inventory_size = LadderCapacity[next]
                /\ row.current_license = next
                /\ row.trust_points = found.trust_points
                /\ row.user_id = found.user_id
                /\ row.last_active = found.last_active
                /\ inventory = {LadderRow}
                /\ calls[c].data = [totalPrice |-> LadderCost[next], money |-> row.money]

\* A tier-1 player with 100000 and 50 trust is upgraded: money 0, capacity
\* 8, trust still 50.
C19_Witness ==
    \E c \in Slots :
        /\ Succeeded(c) /\ calls[c].op = "upgrade"
        /\ calls[c].player.current_license = 1
        /\ calls[c].player.money = 100000 /\ calls[c].player.trust_points = 50
        /\ players[calls[c].player.id].money = 0
        /\ players[calls[c].player.id].max_inventory_size = 8
        /\ players[calls[c].player.id].trust_points = 50

\* A step in which a claimDailyBonus call in slot c is answered with
\* success.
GrantsBonus(c) ==
    /\ calls[c].pc # "done" /\ calls'[c].pc = "done"
    /\ calls'[c].op = "claim" /\ calls'[c].success

\* C20: a claimDailyBonus call is answered with success only if the player's
\* last successful claim, if any, is at least 24 hours back.
C20_OneBonusPerDay ==
    [][ \A c \in Slots :
            GrantsBonus(c) =>
                LET last == claimedAt[calls'[c].player.id]
                IN  last = -1 \/ (now - last) * 24 >= 24 ]_vars

\* The units the caller of slot c holds, the units asked for, and the
\* caller's capacity, read from the tables.
Needed(c) == totalItems(calls[c].player.id) + calls[c].quantity
Capacity(c) == players[calls[c].player.id].max_inventory_size

\* The checks of a buy that come before the capacity check all pass.
EarlierBuyChecksPass(c) ==
    \A e \in BuyCheckErrors \ {"InventoryFull"} : ~BuyCheckFails(c, e)

\* C21: a buy whose earlier checks pass is answered InventoryFull exactly
\* when units held + quantity > max_inventory_size, and then it has changed
\* nothing; it goes on to its first write when units held + quantity <=
\* max_inventory_size, equality included.
C21_InventoryFullExactlyWhenOver ==
    \A c \in Slots :
        (calls[c].op = "buy" /\ calls[c].player # NullPlayer) =>
            /\ (Failed(c) /\ calls[c].error = "InventoryFull")
                  => (Needed(c) > Capacity(c) /\ ~touched[c])
            /\ (Failed(c) /\ ~touched[c] /\ EarlierBuyChecksPass(c)
                  /\ Needed(c) > Capacity(c))
                  => calls[c].error = "InventoryFull"
            /\ calls[c].pc = "buy_updatePlayer"
                  => (EarlierBuyChecksPass(c) /\ Needed(c) <= Capacity(c))

\* A player holding 5 of 5 asks for 1 more and is answered InventoryFull.
C21_Witness ==
    \E c \in Slots :
        /\ Failed(c) /\ calls[c].op = "buy"
        /\ calls[c].error = "InventoryFull"
        /\ calls[c].quantity = 1
        /\ totalItems(calls[c].player.id) = 5 /\ Capacity(c) = 5
        /\ ~touched[c]

\* A buy that fills the inventory exactly goes on to its first write.
C21_ExactFit ==
    \E c \in Slots :
        /\ calls[c].pc = "buy_updatePlayer"
        /\ Needed(c) = Capacity(c)

\* The positions of a buy after its price has been read.
PricedBuy == {"buy_getPlayerInventory", "buy_updatePlayer",
              "buy_addItemToInventory", "buy_createTradeRecord"}

\* C22: with the price recomputation running at any await of a buy, the
\* price the buy reads is the item's stored current price at the moment of
\* the read; the buy keeps that price to its end; and a successful buy has
\* deducted that price times the quantity, tagged its inventory row with
\* that price and recorded and returned that price times the quantity.
C22_OnePricePerBuy ==
    [][ \A c \in Slots :
          LET call == calls'[c]
              price == call.marketPrice.current_price
              total == price * call.quantity
          IN  /\ (calls[c].pc = "buy_getMarketPrice" /\ call.marketPrice # NullPrice)
                    => /\ call.itemName \in DOMAIN market
                       /\ price = market[call.itemName].current_price
                       /\ call.totalPrice = total
              /\ (calls[c].pc \in PricedBuy)
                    => /\ call.marketPrice = calls[c].marketPrice
                       /\ call.totalPrice = calls[c].totalPrice
              /\ (calls[c].pc = "buy_updatePlayer" /\ call.pc = "buy_addItemToInventory")
                    => players'[call.player.id].money = call.player.money - total
              /\ (calls[c].pc = "buy_addItemToInventory" /\ call.pc = "buy_createTradeRecord")
                    => \E r \in inventory' \ inventory :
                          r.id = call.rowId /\ r.current_price = price
              /\ (calls[c].pc = "buy_createTradeRecord" /\ call.success)
                    => /\ trades'[Len(trades')].price = total
                       /\ call.data.totalPrice = total
                       /\ call.data.money = call.player.money - total ]_vars

\* A buy has succeeded at the price it read although the stored price of the
\* item changed before the buy ended.
C22_Witness ==
    \E c \in Slots :
        /\ Succeeded(c) /\ calls[c].op = "buy"
        /\ calls[c].marketPrice.current_price # market[calls[c].itemName].current_price
        /\ \E r \in inventory :
              r.id = calls[c].rowId
              /\ r.current_price = calls[c].marketPrice.current_price
        /\ trades[Len(trades)].price =
              calls[c].marketPrice.current_price * calls[c].quantity

\* The places a call can be at, and the errors a failure can carry.
Positions ==
    {"idle", "done",
     "buy_getMarketPrice", "buy_getPlayerInventory", "buy_updatePlayer",
     "buy_addItemToInventory", "buy_createTradeRecord",
     "sell_get", "sell_updatePlayer", "sell_remove_get", "sell_remove_run",
     "sell_createTradeRecord", "upgrade_updatePlayer", "claim_updatePlayer"}
ErrorNames ==
    {"PlayerNotFound", "MerchantNotFound", "LicenseInsufficient",
     "ItemNotOffered", "InsufficientFunds", "InventoryFull", "PriceNotFound",
     "ItemNotFound", "ItemNotOwned", "InsufficientQuantity",
     "InsufficientTrust", "MaxTierReached", "BonusNotYetAvailable",
     "StorageError", "TypeError"}

\* C23: buyItem, sellItem, upgradeLicense and claimDailyBonus never let an
\* error leave the method: a call is always inside the method or answered,
\* and an answered call, one whose storage operation raised included, is
\* either a success without an error or a failure that carries an error.
C23_EveryCallAnswers ==
    \A c \in Slots :
        /\ calls[c].pc \in Positions
        /\ Done(c) =>
             IF calls[c].success THEN calls[c].error = "none"
             ELSE calls[c].error \in ErrorNames

\* A write raised in the middle of a commit and the call answered a failure.
C23_Witness ==
    /\ storage = StorageCollaborator
    /\ Failed(1)
    /\ calls[1].error = "StorageError"
    /\ touched[1]

\* What an answered call adds to the player's money.
MoneyChange(c) ==
    IF calls[c].op = "sell" THEN calls[c].totalPrice ELSE 0 - calls[c].totalPrice

\* An upgrade in slot c and a buy or a sell of the same player in slot d, one
\* begun while the other was in flight, both answered with success.
UpgradeBesideTrade(c, d) ==
    /\ Succeeded(c) /\ Succeeded(d)
    /\ calls[c].op = "upgrade" /\ Trade(d)
    /\ calls[c].player.id = calls[d].player.id
    /\ calls[d].overlap = calls[c].seq \/ calls[c].overlap = calls[d].seq

\* C24: when an upgradeLicense and a concurrent buy or sell of one player all
\* succeed, the player's money is the money the first of them found, minus
\* the upgrade cost, minus the buy's total or plus the sell's total.
C24_UpgradeAndTradeBothCounted ==
    \A c \in Slots : \A d \in Slots \ {c} :
        UpgradeBesideTrade(c, d) =>
            LET first == IF calls[d].overlap = calls[c].seq THEN c ELSE d
            IN  players[calls[c].player.id].money =
                    calls[first].player.money + MoneyChange(c) + MoneyChange(d)

\* The item names of the rows a recomputation has read.
JobNames(j) == {j.prices[k].item_name : k \in DOMAIN j.prices}

\* C26: a recomputation reads every row of market_prices and rewrites the
\* current price of each in turn, one pass and no more; nothing but a
\* recomputation changes the table, and no step adds a row, deletes a row or
\* changes a base price, so there stays one row per item name.
C26_EveryRowRepricedNoneAddedOrDropped ==
    [][/\ DOMAIN market' = DOMAIN market
       /\ \A n \in DOMAIN market : market'[n].base_price = market[n].base_price
       /\ market' # market => job.pc = "update" /\ job' # job
       /\ (job.pc = "idle" /\ job'.pc = "update") =>
            /\ JobNames(job') = DOMAIN market
            /\ Len(job'.prices) = Cardinality(DOMAIN market)
            /\ job'.i = 1
       /\ (job.pc = "update" /\ job' # job) =>
            LET price == job.prices[job.i]
            IN  /\ \E variation \in Variations :
                     market'[price.item_name].current_price =
                         newPrice(price, variation)
                /\ \A n \in DOMAIN market \ {price.item_name} :
                     market'[n] = market[n]
                /\ IF job.i < Len(job.prices)
                   THEN job' = [job EXCEPT !.i = job.i + 1]
                   ELSE job'.pc = "idle"]_vars

\* A recomputation has finished its pass and every row has a new price.
C26_Witness ==
    /\ priceRuns >= 1
    /\ job.pc = "idle"
    /\ \A n \in DOMAIN market : market[n].current_price # market[n].base_price
    /\ DOMAIN market = DOMAIN MarketSeed

\* C25: the trade log only grows: every step keeps each record there is, at
\* its place and with all of its fields.
C25_TradeLogAppendOnly ==
    [][/\ Len(trades') >= Len(trades)
       /\ \A i \in 1..Len(trades) : trades'[i] = trades[i]]_vars

\* A second trade has been recorded behind the first, a buy and then a sell.
C25_Witness ==
    /\ Len(trades) = 2
    /\ trades[1].trade_type = "buy"
    /\ trades[2].trade_type = "sell"

\* The step of slot c is the write of operation op, at position pc, for
\* player p.
Writes(c, op, pc, p) ==
    /\ calls[c].op = op
    /\ calls[c].pc = pc
    /\ calls[c].player.id = p

\* C27: a step of buyItem or sellItem leaves the player's trust points,
\* license tier and inventory capacity as they were: trust points change
\* only in the write of claimDailyBonus, tier and capacity only in the write
\* of upgradeLicense.
C27_TradesLeaveTrustTierCapacity ==
    [][\A p \in PlayerIds :
        /\ players'[p].trust_points # players[p].trust_points =>
             \E c \in Slots : Writes(c, "claim", "claim_updatePlayer", p)
        /\ (\/ players'[p].current_license # players[p].current_license
            \/ players'[p].max_inventory_size # players[p].max_inventory_size) =>
             \E c \in Slots : Writes(c, "upgrade", "upgrade_updatePlayer", p)]_vars

\* A buy and a sell have been recorded and the seller's trust points, tier
\* and capacity are those of the start.
C27_Witness ==
    /\ Len(trades) = 2
    /\ trades[1].trade_type = "buy"
    /\ trades[2].trade_type = "sell"
    /\ \E p \in PlayerIds :
        /\ trades[2].seller_id = p
        /\ players[p].trust_points \in
             {NewPlayer("u1").trust_points, SeasonedPlayer("u1").trust_points}
        /\ players[p].current_license = 1
        /\ players[p].max_inventory_size = getInventorySize(1)
        /\ Succeeded(1) /\ calls[1].op = "sell"

\* C28: every inventory row holds a quantity of at least one.
C28_RowQuantityAtLeastOne ==
    \A r \in inventory : r.quantity >= 1

\* C29: with every storage operation answering, every call in flight is
\* answered in the end, whatever other call is in flight beside it, and a
\* recomputation that has read the rows ends.
C29_EveryCallReturns ==
    /\ \A c \in Slots : InFlight(c) ~> Done(c)
    /\ (job.pc = "update") ~> (job.pc = "idle")

\* A request that began beside another has its answer while the other is
\* still in flight and a recomputation is in its loop.
C29_Witness ==
    /\ InFlight(1)
    /\ Succeeded(2)
    /\ calls[2].overlap = calls[1].seq
    /\ job.pc = "update"

\* The errors the checks of upgradeLicense and claimDailyBonus answer with.
UpgradeCheckErrors ==
    {"PlayerNotFound", "MaxTierReached", "InsufficientFunds", "InsufficientTrust"}
ClaimCheckErrors == {"PlayerNotFound", "BonusNotYetAvailable"}

\* The call in slot c fails none of the checks of its operation: for a buy
\* and a sell read from the tables, for an upgrade and a claim from the
\* answer.
PreconditionsHold(c) ==
    CASE calls[c].op = "buy" -> FirstFailingBuyCheck(c) = "none"
      [] calls[c].op = "sell" -> FirstFailingSellCheck(c) = "none"
      [] calls[c].op = "upgrade" -> calls[c].error \notin UpgradeCheckErrors
      [] calls[c].op = "claim" -> calls[c].error \notin ClaimCheckErrors

\* C30: over the DatabaseManager and the tables of the repository, every
\* storage operation a call invokes exists and every column updatePlayer
\* writes is a column of players, so a call that fails none of the checks
\* of its operation is answered with success.
C30_AsWrittenStorageServesEveryCall ==
    storage = StorageAsWritten =>
        \A c \in Slots : (Done(c) /\ PreconditionsHold(c)) => calls[c].success

\* Two sells of one inventory row by its holder, the one in slot d begun
\* while the one in slot c was in flight, both past their checks and both
\* answered.
ConcurrentSells(c, d) ==
    /\ Done(c) /\ Done(d)
    /\ calls[c].op = "sell" /\ calls[d].op = "sell"
    /\ calls[c].item # NullItem /\ calls[d].item # NullItem
    /\ calls[c].item.id = calls[d].item.id
    /\ calls[d].overlap = calls[c].seq
    /\ touched[c] /\ touched[d]

\* The units the row with this id holds now; none when the row is gone.
UnitsLeft(id) ==
    LET rows == {r \in inventory : r.id = id}
    IN  IF rows = {} THEN 0 ELSE (CHOOSE r \in rows : TRUE).quantity

\* C31: when two concurrent sells of one row have been answered, the money the
\* player gained since the first began is at most the sale price of the units
\* that left the row; and a sell that has credited money has also removed its
\* units and recorded its trade, that is, it answers success.
C31_NoUnitPaidTwice ==
    \A c \in Slots : \A d \in Slots \ {c} :
        ConcurrentSells(c, d) =>
            LET p == calls[c].player.id
                gained == players[p].money - calls[c].player.money
                removed == calls[c].item.quantity - UnitsLeft(calls[c].item.id)
            IN  /\ gained <= sellPrice(calls[c].item) * removed
                /\ calls[c].success /\ calls[d].success

\* C32: no step of a sell asked with a quantity of zero or less lowers a
\* player's money or raises the quantity of an inventory row, and a trade
\* record it adds carries the quantity that was asked.
C32_NonPositiveSellHarmless ==
    [][\A c \in Slots :
        (InFlight(c) /\ calls[c].op = "sell" /\ calls[c].quantity <= 0
           /\ calls'[c] # calls[c]) =>
            /\ \A p \in PlayerIds : players'[p].money >= players[p].money
            /\ \A r \in inventory : \A s \in inventory' :
                 s.id = r.id => s.quantity <= r.quantity
            /\ Len(trades') > Len(trades) =>
                 trades'[Len(trades')].quantity = calls[c].quantity]_vars

\* C33: with requests that may overlap and quantities of at least one, every
\* value written to a player's money is at least zero: a buy and an upgrade
\* about to write hold an amount between zero and the balance they read, a
\* sell and a claim an amount of at least zero to add to it, and no player's
\* money is below zero.
C33_EveryMoneyWriteNonNegative ==
    /\ \A p \in PlayerIds : players[p].money >= 0
    /\ \A c \in Slots :
        /\ calls[c].pc \in {"buy_updatePlayer", "upgrade_updatePlayer"} =>
             /\ calls[c].totalPrice >= 0
             /\ calls[c].totalPrice <= calls[c].player.money
        /\ calls[c].pc \in {"sell_updatePlayer", "claim_updatePlayer"} =>
             /\ calls[c].totalPrice >= 0
             /\ calls[c].player.money >= 0

\* An upgrade beside a buy of the same player, both answered with success,
\* the upgrade's write the last: the money is the balance the upgrade read
\* minus its cost, here zero.
C33_Witness ==
    \E c \in Slots : \E d \in Slots \ {c} :
        /\ UpgradeBesideTrade(c, d)
        /\ calls[d].op = "buy"
        /\ players[calls[c].player.id].money =
             calls[c].player.money - calls[c].totalPrice
        /\ players[calls[c].player.id].money = 0

\* C34: every market_prices row's current price lies between floor(base / 2)
\* and floor(base * 3 / 2), after a triggerRandomEvent as well.
C34_PriceWithinBandAfterEvents ==
    \A n \in DOMAIN market :
        /\ market[n].current_price >= market[n].base_price \div 2
        /\ market[n].current_price <= (market[n].base_price * 3) \div 2

\* The row with this id, as the inventory table holds it.
RowOf(id) == CHOOSE r \in inventory : r.id = id

RECURSIVE TradedPrices(_, _, _)
TradedPrices(p, type, n) ==
    IF n = 0 THEN 0
    ELSE LET record == trades[n]
             mine == /\ record.trade_type = type
                     /\ p = IF type = "buy" THEN record.buyer_id
                            ELSE record.seller_id
         IN  (IF mine THEN record.price ELSE 0) + TradedPrices(p, type, n - 1)

\* The cost of the upgrades that lead from tier 1 to this tier.
RECURSIVE UpgradeCosts(_)
UpgradeCosts(tier) ==
    IF tier <= 1 THEN 0 ELSE LadderCost[tier] + UpgradeCosts(tier - 1)

\* The money the player began with, told by the trust points of a player to
\* whom no bonus has been granted.
StartingMoney(p) ==
    IF players[p].trust_points = SeasonedPlayer("u1").trust_points
    THEN SeasonedPlayer("u1").money
    ELSE NewPlayer("u1").money

\* C36: with calls served one at a time, whenever no call is in flight the
\* money of a player to whom no bonus has been granted is the starting money
\* minus the prices of the player's buy records, plus the prices of the sell
\* records, minus the costs of the upgrades made.
C36_TradeLogAccountsForMoney ==
    (\A c \in Slots : ~InFlight(c)) =>
        \A p \in PlayerIds :
            claimedAt[p] = -1 =>
                players[p].money =
                    StartingMoney(p)
                    - TradedPrices(p, "buy", Len(trades))
                    + TradedPrices(p, "sell", Len(trades))
                    - UpgradeCosts(players[p].current_license)

RECURSIVE SumValue(_)
SumValue(rows) ==
    IF rows = {} THEN 0
    ELSE LET r == CHOOSE x \in rows : TRUE
         IN  r.current_price * r.quantity + SumValue(rows \ {r})

\* A player's money plus the stored current price times the quantity of each
\* of the player's inventory rows.
Worth(p) == players[p].money + SumValue(getPlayerInventory(p))

\* C37: with buys and sells alone, served one at a time with quantities of
\* at least one, whenever no call is in flight a player's money plus the
\* stored value of the player's rows is at most the starting money, whatever
\* the price recomputations in between.
C37_TradingNeverRaisesWorth ==
    (\A c \in Slots : ~InFlight(c)) =>
        \A p \in PlayerIds :
            (claimedAt[p] = -1 /\ players[p].current_license = 1) =>
                Worth(p) <= StartingMoney(p)

\* ------------------------------------------------- overlapping upgrades
\* upgradeLicense calls of players of any tier, overlapping at their awaits.
NextLadderOverlap ==
    \E c \in Slots :
        \/ upgradeLicense_getPlayerByUserId(c, Upgrading)
        \/ upgradeLicense_updatePlayer(c, Upgrading)
        \/ Respond(c)
SpecLadderOverlap == InitLadder /\ [][NextLadderOverlap]_vars

\* C38: in every state each player's max_inventory_size is the capacity of
\* the player's current licence tier (1:5, 2:8, 3:12, 4:16, 5:20), also after
\* upgradeLicense calls of one player have overlapped, and no step lowers a
\* player's max_inventory_size.
C38_CapacityMatchesTierAndNeverFalls ==
    [][\A p \in PlayerIds :
          /\ players'[p].max_inventory_size =
                 LadderCapacity[players'[p].current_license]
          /\ players'[p].max_inventory_size >= players[p].max_inventory_size]_vars

\* C39: a step of buyItem, sellItem, upgradeLicense or claimDailyBonus changes
\* the money, trust points, tier, capacity or inventory rows of no player but
\* the one the call was made for, however the calls of different players
\* interleave, and no step changes a merchant.
C39_OtherPlayersAndMerchantsUntouched ==
    [][ /\ merchants' = merchants
        /\ \A p \in PlayerIds :
              (\/ players'[p] # players[p]
               \/ {r \in inventory' : r.player_id = p}
                    # {r \in inventory : r.player_id = p})
                 => \E c \in Slots :
                       /\ calls'[c] # calls[c]
                       /\ calls[c].userId = players[p].user_id
                       /\ calls[c].player.id = p ]_vars

\* Buys of two different players have overlapped and both succeeded: each
\* player has paid for and holds exactly the row of their own call.
C39_Witness ==
    \E c \in Slots : \E d \in Slots \ {c} :
        /\ Succeeded(c) /\ calls[c].op = "buy" /\ calls[c].overlap > 0
        /\ Succeeded(d) /\ calls[d].op = "buy"
        /\ calls[c].player.id = "p1" /\ calls[d].player.id = "p2"
        /\ \A e \in {c, d} :
              /\ players[calls[e].player.id].money =
                     calls[e].player.money - calls[e].totalPrice
              /\ {r.id : r \in {r \in inventory :
                                   r.player_id = calls[e].player.id}}
                     = {calls[e].rowId}

====
